---------------------------- MODULE Spec2Model ----------------------------
(***************************************************************************)
(* A model of duration.js (mod.ts): the Duration value type, its unit      *)
(* accessors and setters, its arithmetic and comparison operations, its    *)
(* text parser and the texts it writes (with in_words.ts).                 *)
(*                                                                         *)
(* Numbers.  A JavaScript number is an IEEE-754 double and the arithmetic   *)
(* of the program is the arithmetic of doubles: every sum, product and     *)
(* quotient is rounded to the nearest double.  The doubles are modelled    *)
(* bit for bit (see below), on significands kept as sequences of limbs     *)
(* because the model checker works on 32-bit integers.                     *)
(***************************************************************************)
EXTENDS Integers, Sequences, FiniteSets, TLC

VARIABLES
    a,      \* the receiver: a Duration object, [src, raw], src the value it
            \* was constructed from and raw its field raw
    b,      \* a second Duration object, passed as an argument
    hist,   \* the calls made so far, oldest first: method, inputs, result
    BaseDurationObj     \* the object of that name of the module, which the
                        \* getter json writes to and returns

vars == <<a, b, hist, BaseDurationObj>>

---------------------------------------------------------------------------
(* Bounds of the model *)

\* calls made in one run
MaxCalls == 2

\* the largest number of days given to setDays within its range
MaxDays == 3

\* the largest integer written in words
MaxNumber == 999

---------------------------------------------------------------------------
(* Natural numbers of any size, for the significands of the doubles: a     *)
(* sequence of limbs in 0 .. Limb - 1, the least significant first, with   *)
(* no zero limb at the top; <<>> is 0                                      *)

Limb == 2^15

Sign(i) == IF i > 0 THEN 1 ELSE IF i < 0 THEN -1 ELSE 0

Abs(i) == IF i < 0 THEN -i ELSE i

Min(i, j) == IF i < j THEN i ELSE j

\* the limbs of the natural number n
RECURSIVE BigOf(_)
BigOf(n) == IF n = 0 THEN <<>> ELSE <<n % Limb>> \o BigOf(n \div Limb)

\* the natural number of the limbs x, when it is below 2^31
RECURSIVE BigInt(_)
BigInt(x) == IF x = <<>> THEN 0 ELSE x[1] + Limb * BigInt(Tail(x))

\* the limb l below the limbs z
Push(l, z) == IF l = 0 /\ z = <<>> THEN <<>> ELSE <<l>> \o z

Low(x) == IF x = <<>> THEN 0 ELSE x[1]

High(x) == IF x = <<>> THEN <<>> ELSE Tail(x)

\* x + y + c
RECURSIVE BigAdd(_, _, _)
BigAdd(x, y, c) ==
    IF y = <<>> /\ c = 0 THEN x
    ELSE IF x = <<>> /\ c = 0 THEN y
    ELSE Push((Low(x) + Low(y) + c) % Limb,
              BigAdd(High(x), High(y), (Low(x) + Low(y) + c) \div Limb))

\* x - y - c, for x >= y + c
RECURSIVE BigSub(_, _, _)
BigSub(x, y, c) ==
    IF y = <<>> /\ c = 0 THEN x
    ELSE Push((Low(x) - Low(y) - c) % Limb,
              BigSub(High(x), High(y), IF Low(x) - Low(y) - c < 0 THEN 1 ELSE 0))

\* the order of x and y: -1, 0 or 1
RECURSIVE BigCmpAt(_, _, _)
BigCmpAt(x, y, i) ==
    IF i = 0 THEN 0
    ELSE IF x[i] # y[i] THEN Sign(x[i] - y[i])
    ELSE BigCmpAt(x, y, i - 1)

BigCmp(x, y) ==
    IF Len(x) # Len(y) THEN Sign(Len(x) - Len(y)) ELSE BigCmpAt(x, y, Len(x))

\* x * k + c, for k and c below 2^16
RECURSIVE BigTimesSmall(_, _, _)
BigTimesSmall(x, k, c) ==
    IF x = <<>> THEN BigOf(c)
    ELSE Push((x[1] * k + c) % Limb,
              BigTimesSmall(Tail(x), k, (x[1] * k + c) \div Limb))

\* x * y
RECURSIVE BigTimes(_, _)
BigTimes(x, y) ==
    IF x = <<>> \/ y = <<>> THEN <<>>
    ELSE IF y[1] = 0 THEN Push(0, BigTimes(x, Tail(y)))
    ELSE BigAdd(BigTimesSmall(x, y[1], 0), Push(0, BigTimes(x, Tail(y))), 0)

\* the quotient q and the remainder r of x by k, for 0 < k < 2^16
RECURSIVE BigDivSmall(_, _)
BigDivHigh(l, high, k) ==
    [q |-> Push((high.r * Limb + l) \div k, high.q), r |-> (high.r * Limb + l) % k]

BigDivSmall(x, k) ==
    IF x = <<>> THEN [q |-> <<>>, r |-> 0]
    ELSE BigDivHigh(x[1], BigDivSmall(Tail(x), k), k)

\* the quotient of x by the product of the factors fs, each below 2^16, and
\* r = 0 exactly when the division leaves no remainder
RECURSIVE BigDivChain(_, _)
BigDivJoin(rest, r) == [q |-> rest.q, r |-> IF r # 0 THEN 1 ELSE rest.r]

BigDivNext(first, fs) == BigDivJoin(BigDivChain(first.q, fs), first.r)

BigDivChain(x, fs) ==
    IF fs = <<>> THEN [q |-> x, r |-> 0]
    ELSE BigDivNext(BigDivSmall(x, fs[1]), Tail(fs))

\* the number of bits of a limb, and of x
RECURSIVE BitLen(_)
BitLen(n) == IF n = 0 THEN 0 ELSE 1 + BitLen(n \div 2)

BigBits(x) == IF x = <<>> THEN 0 ELSE 15 * (Len(x) - 1) + BitLen(x[Len(x)])

\* x * 2^n
BigShl(x, n) ==
    IF x = <<>> THEN <<>>
    ELSE [i \in 1..(n \div 15) |-> 0] \o BigTimesSmall(x, 2^(n % 15), 0)

\* x \div 2^n
BigShr(x, n) ==
    IF n \div 15 >= Len(x) THEN <<>>
    ELSE BigDivSmall(SubSeq(x, n \div 15 + 1, Len(x)), 2^(n % 15)).q

\* bit n of x (bit 0 is the lowest), for n below the number of bits of x
BigBit(x, n) == (x[n \div 15 + 1] \div 2^(n % 15)) % 2

\* some bit of x below bit n is set, for n below the number of bits of x
BigLowBits(x, n) ==
    \/ \E i \in 1..(n \div 15) : x[i] # 0
    \/ x[n \div 15 + 1] % 2^(n % 15) # 0

---------------------------------------------------------------------------
(* JavaScript numbers are IEEE-754 doubles.  A finite double is            *)
(* [sgn, man, exp]: its value is sgn * man * 2^exp with sgn in {-1, 0, 1}  *)
(* and, when it is not zero, a significand man of exactly 53 bits.  Every  *)
(* operation computes the exact result and rounds it once, to the nearest  *)
(* double, ties to the even significand.  The numbers of this program stay *)
(* far inside the range of the normal doubles; infinities, NaN and the     *)
(* sign of zero are left out.                                              *)

Zero == [sgn |-> 0, man |-> <<>>, exp |-> 0]

\* a significand of 53 or 54 bits, after rounding, with its exponent
Pack(sgn, q, e) ==
    IF BigBits(q) > 53
    THEN [sgn |-> sgn, man |-> BigShr(q, 1), exp |-> e + 1]
    ELSE [sgn |-> sgn, man |-> q, exp |-> e]

\* the 53 kept bits q, the first dropped bit half, and sticky: whether
\* anything lies below that bit
RoundEven(sgn, q, half, sticky, e) ==
    Pack(sgn, IF half = 1 /\ (sticky \/ q[1] % 2 = 1) THEN BigAdd(q, <<>>, 1) ELSE q, e)

\* the nearest double to sgn * (x + f) * 2^e, where 0 <= f < 1, sticky says
\* whether f > 0, and bits is the number of bits of x; when f > 0, x has
\* more than 53 bits
RoundBits(sgn, x, e, sticky, bits) ==
    IF bits = 0 THEN Zero
    ELSE IF bits <= 53
    THEN [sgn |-> sgn, man |-> BigShl(x, 53 - bits), exp |-> e - (53 - bits)]
    ELSE RoundEven(sgn, BigShr(x, bits - 53), BigBit(x, bits - 54),
                   sticky \/ BigLowBits(x, bits - 54), e + (bits - 53))

Round(sgn, x, e, sticky) == RoundBits(sgn, x, e, sticky, BigBits(x))

\* the double of the integer n
NumOf(n) == Round(Sign(n), BigOf(Abs(n)), 0, FALSE)

NumSign(x) == x.sgn

\* -x
NumNeg(x) == [x EXCEPT !.sgn = -x.sgn]

\* Math.abs(x)
NumAbs(x) == [x EXCEPT !.sgn = Abs(x.sgn)]

\* the order of the magnitudes of two doubles that are not zero
MagCmp(x, y) ==
    IF x.exp # y.exp THEN Sign(x.exp - y.exp) ELSE BigCmp(x.man, y.man)

\* x > y
NumGreater(x, y) ==
    IF x.sgn # y.sgn THEN x.sgn > y.sgn
    ELSE IF x.sgn = 0 THEN FALSE
    ELSE x.sgn * MagCmp(x, y) > 0

\* the sum of two integers sx * x and sy * y scaled by 2^e, c the order of x
\* and y
AddSigned(sx, x, sy, y, e, c) ==
    IF sx = sy THEN Round(sx, BigAdd(x, y, 0), e, FALSE)
    ELSE IF c = 0 THEN Zero
    ELSE IF c > 0 THEN Round(sx, BigSub(x, y, 0), e, FALSE)
    ELSE Round(sy, BigSub(y, x, 0), e, FALSE)

AddScaled(sx, x, sy, y, e) == AddSigned(sx, x, sy, y, e, BigCmp(x, y))

AddAt(x, y, e) ==
    AddScaled(x.sgn, BigShl(x.man, x.exp - e), y.sgn, BigShl(y.man, y.exp - e), e)

\* x + y
NumAdd(x, y) ==
    IF x.sgn = 0 THEN y
    ELSE IF y.sgn = 0 THEN x
    ELSE AddAt(x, y, Min(x.exp, y.exp))

\* x - y
NumSub(x, y) == NumAdd(x, NumNeg(y))

\* x * y
NumTimes(x, y) ==
    IF x.sgn = 0 \/ y.sgn = 0 THEN Zero
    ELSE Round(x.sgn * y.sgn, BigTimes(x.man, y.man), x.exp + y.exp, FALSE)

\* a whole divisor as a product of factors below 2^16: the divisors of this
\* program are below 2^16 or whole multiples of 10000 below 10000 * 2^16
Factors(k) == IF k < 2^16 THEN <<k>> ELSE <<10000, k \div 10000>>

DivRound(sgn, res, e) == Round(sgn, res.q, e, res.r # 0)

\* x / (the product of the factors fs) with the sign sgn
NumDivBy(sgn, x, fs) ==
    IF x.sgn = 0 THEN Zero
    ELSE DivRound(sgn, BigDivChain(<<0, 0, 0>> \o x.man, fs), x.exp - 45)

\* x / k for a whole number k that is not 0
NumDiv(x, k) == NumDivBy(x.sgn * Sign(k), x, Factors(Abs(k)))

\* the magnitude of Math.trunc(x)
BigTrunc(x) ==
    IF x.exp >= 0 THEN BigShl(x.man, x.exp) ELSE BigShr(x.man, -x.exp)

\* Math.trunc(x), when it is below 2^31 in magnitude
Trunc(x) == x.sgn * BigInt(BigTrunc(x))

TruncRem_floored(x, md) ==
    (x.sgn * BigDivSmall(BigTrunc(x), md).r + md) % md

\* Math.trunc(x) % md: the remainder takes the sign of the dividend
TruncRem(x, md) == x.sgn * BigDivSmall(BigTrunc(x), md).r

---------------------------------------------------------------------------
(* class Duration: the static unit sizes, in milliseconds *)

\* The sizes are written out as the doubles that the static initialisers
\* compute; StaticInit states how the class computes them and is part of every
\* initial state.

\* 1 / 1_000
MICROSECOND == [sgn |-> 1, man |-> <<10748, 9699, 2359, 131>>, exp |-> -62]

\* Duration.MICROSECOND / 1_000
NANOSECOND == [sgn |-> 1, man |-> <<28045, 16747, 7134, 134>>, exp |-> -72]

\* 1
MILLISECOND == [sgn |-> 1, man |-> <<0, 0, 0, 128>>, exp |-> -52]

\* 1_000
SECOND == [sgn |-> 1, man |-> <<0, 0, 0, 250>>, exp |-> -43]

\* Duration.SECOND * 60
MINUTE == [sgn |-> 1, man |-> <<0, 0, 12288, 234>>, exp |-> -37]

\* Duration.MINUTE * 60
HOUR == [sgn |-> 1, man |-> <<0, 0, 23808, 219>>, exp |-> -31]

\* Duration.HOUR * 24
DAY == [sgn |-> 1, man |-> <<0, 0, 26048, 164>>, exp |-> -26]

\* the literals 1_000 and 1_000_000 of the getters
Thousand == SECOND

Million == [sgn |-> 1, man |-> <<0, 0, 4608, 244>>, exp |-> -33]

StaticInit ==
    /\ MICROSECOND = NumDiv(NumOf(1), 1000)
    /\ NANOSECOND = NumDiv(MICROSECOND, 1000)
    /\ MILLISECOND = NumOf(1)
    /\ SECOND = NumOf(1000)
    /\ MINUTE = NumTimes(SECOND, NumOf(60))
    /\ HOUR = NumTimes(MINUTE, NumOf(60))
    /\ DAY = NumTimes(HOUR, NumOf(24))
    /\ Million = NumOf(1000000)
    /\ BaseDurationObj =
           [d |-> 0, h |-> 0, m |-> 0, s |-> 0, ms |-> 0, us |-> 0, ns |-> 0]

\* keyList: the unit keys in their fixed order
Keys == <<"d", "h", "m", "s", "ms", "us", "ns">>

KeySet == {Keys[i] : i \in 1..Len(Keys)}

---------------------------------------------------------------------------
(* The unit getters of a Duration whose field raw is given *)

d(raw) == Trunc(NumDiv(raw, 86400000))

h(raw) == TruncRem(NumDiv(raw, 3600000), 24)

m(raw) == TruncRem(NumDiv(raw, 60000), 60)

s(raw) == TruncRem(NumDiv(raw, 1000), 60)

ms(raw) == TruncRem(raw, 1000)

us(raw) == TruncRem(NumTimes(raw, Thousand), 1000)

ns(raw) == TruncRem(NumTimes(raw, Million), 1000)

\* this.array, as a record: the value of every unit key
array(raw) ==
    [d |-> d(raw), h |-> h(raw), m |-> m(raw), s |-> s(raw),
     ms |-> ms(raw), us |-> us(raw), ns |-> ns(raw)]

\* this[k] for a unit key k
\* get json(): this.array.reduce(..., BaseDurationObj) assigns the value of
\* each unit to the field of its key in acc and returns acc
json(raw, acc) ==
    [acc EXCEPT !.d = d(raw), !.h = h(raw), !.m = m(raw), !.s = s(raw),
                !.ms = ms(raw), !.us = us(raw), !.ns = ns(raw)]

Unit(k, raw) ==
    CASE k = "d" -> d(raw)
      [] k = "h" -> h(raw)
      [] k = "m" -> m(raw)
      [] k = "s" -> s(raw)
      [] k = "ms" -> ms(raw)
      [] k = "us" -> us(raw)
      [] k = "ns" -> ns(raw)

---------------------------------------------------------------------------
(* The setters: each rebases raw by (n - current) * size and returns this *)

setDays(raw, n) == NumAdd(raw, NumTimes(NumOf(n - d(raw)), DAY))

setHours_add(raw, n) == NumAdd(raw, NumTimes(NumOf(n), HOUR))

setHours(raw, n) == NumAdd(raw, NumTimes(NumOf(n - h(raw)), HOUR))

setMinutes(raw, n) == NumAdd(raw, NumTimes(NumOf(n - m(raw)), MINUTE))

setSeconds(raw, n) == NumAdd(raw, NumTimes(NumOf(n - s(raw)), SECOND))

setMilliseconds(raw, n) == NumAdd(raw, NumTimes(NumOf(n - ms(raw)), MILLISECOND))

setMicroseconds(raw, n) == NumAdd(raw, NumTimes(NumOf(n - us(raw)), MICROSECOND))

setNanoseconds(raw, n) == NumAdd(raw, NumTimes(NumOf(n - ns(raw)), NANOSECOND))

\* the setter of the unit with key k
SetUnit(k, raw, n) ==
    CASE k = "d" -> setDays(raw, n)
      [] k = "h" -> setHours(raw, n)
      [] k = "m" -> setMinutes(raw, n)
      [] k = "s" -> setSeconds(raw, n)
      [] k = "ms" -> setMilliseconds(raw, n)
      [] k = "us" -> setMicroseconds(raw, n)
      [] k = "ns" -> setNanoseconds(raw, n)

\* the property setters (set d(val) .. set ns(val)): each calls its setX
AssignUnit(k, raw, val) == SetUnit(k, raw, val)

\* addDays .. addNanoseconds: this.k += n reads the getter, then assigns
AddUnit_assign(k, raw, n) == AssignUnit(k, raw, n)

AddUnit(k, raw, n) == AssignUnit(k, raw, Unit(k, raw) + n)

---------------------------------------------------------------------------
(* Strings are sequences of one-character strings *)

\* the characters of a string literal
Chars(lit) == [i \in 1..Len(lit) |-> SubSeq(lit, i, i)]

Digit == <<"0", "1", "2", "3", "4", "5", "6", "7", "8", "9">>

LowerAlpha ==
    <<"a", "b", "c", "d", "e", "f", "g", "h", "i", "j", "k", "l", "m",
      "n", "o", "p", "q", "r", "s", "t", "u", "v", "w", "x", "y", "z">>

UpperAlpha ==
    <<"A", "B", "C", "D", "E", "F", "G", "H", "I", "J", "K", "L", "M",
      "N", "O", "P", "Q", "R", "S", "T", "U", "V", "W", "X", "Y", "Z">>

DigitSet == {Digit[i] : i \in 1..Len(Digit)}

IsDigit(c) == c \in DigitSet

DigitValue(c) == (CHOOSE i \in 1..Len(Digit) : Digit[i] = c) - 1

UpperSet == {UpperAlpha[i] : i \in 1..Len(UpperAlpha)}

LowerSet == {LowerAlpha[i] : i \in 1..Len(LowerAlpha)}

\* the regular expression class [a-z] under the flag i
IsLetter(c) == c \in UpperSet \/ c \in LowerSet

\* the regular expression class \s
IsSpace(c) == c \in {" ", "\t", "\n"}

LowerChar(c) ==
    IF c \in UpperSet
    THEN LowerAlpha[CHOOSE i \in 1..Len(UpperAlpha) : UpperAlpha[i] = c]
    ELSE c

\* String.prototype.toLowerCase
toLowerCase(str) == [i \in 1..Len(str) |-> LowerChar(str[i])]

\* String.prototype.slice(from), from counted from 0
slice(str, from) == SubSeq(str, from + 1, Len(str))

\* String.prototype.includes
includes(str, c) == \E i \in 1..Len(str) : str[i] = c

\* String.prototype.startsWith
startsWith(str, c) == Len(str) >= 1 /\ str[1] = c

\* String.prototype.split(c) for a one-character separator
RECURSIVE split(_, _)
split(str, c) ==
    IF ~includes(str, c) THEN <<str>>
    ELSE LET i == CHOOSE j \in 1..Len(str) :
                      str[j] = c /\ \A k \in 1..(j - 1) : str[k] # c
         IN  <<SubSeq(str, 1, i - 1)>> \o split(SubSeq(str, i + 1, Len(str)), c)

RemoveSpacePairs_kept(str) == str

\* str.replace(/\s\s/g, ""): every pair of adjacent white-space characters,
\* taken from the left without overlap, is removed
RECURSIVE RemoveSpacePairs(_)
RemoveSpacePairs(str) ==
    IF Len(str) < 2 THEN str
    ELSE IF IsSpace(str[1]) /\ IsSpace(str[2])
         THEN RemoveSpacePairs(SubSeq(str, 3, Len(str)))
         ELSE <<str[1]>> \o RemoveSpacePairs(Tail(str))

---------------------------------------------------------------------------
(* Number(str): the double nearest to a decimal numeral *)

\* the natural number written by the digits str after the digits of acc
RECURSIVE BigDigits(_, _)
BigDigits(str, acc) ==
    IF str = <<>> THEN acc
    ELSE BigDigits(Tail(str), BigTimesSmall(acc, 10, DigitValue(str[1])))

\* the position of the decimal point of a numeral, past its end when none
DotIndex(body) ==
    IF includes(body, ".")
    THEN CHOOSE i \in 1..Len(body) : body[i] = "."
    ELSE Len(body) + 1

\* the numeral body of sign sgn whose decimal point stands at dot: its digits
\* as a whole number (below 2^53 in this model, so a double), divided by
\* ten once for each digit of the fraction and rounded once
Unsigned(sgn, body, dot) ==
    NumDivBy(sgn,
             Round(sgn, BigDigits(SubSeq(body, 1, dot - 1)
                                  \o SubSeq(body, dot + 1, Len(body)), <<>>),
                   0, FALSE),
             [i \in 1..(Len(body) - dot) |-> 10])

Number_unsigned(str) ==
    IF startsWith(str, "-")
    THEN Unsigned(1, Tail(str), DotIndex(Tail(str)))
    ELSE Unsigned(1, str, DotIndex(str))

\* Number(str) for str of the form -?\d+(\.\d+)?
Number(str) ==
    IF startsWith(str, "-")
    THEN Unsigned(-1, Tail(str), DotIndex(Tail(str)))
    ELSE Unsigned(1, str, DotIndex(str))

\* the number literal written lit
Num(lit) == Number(Chars(lit))

\* a number is falsy exactly when it is 0
Truthy(x) == x.sgn # 0

---------------------------------------------------------------------------
(* matchUnit: the first match of (-?\d+(?:\.\d+)?)\s?t(?:[^a-z]|$), flag i  *)

\* the last position of the longest run of digits that starts at p, p - 1
\* when no digit stands at p
RECURSIVE DigitsEnd(_, _)
DigitsEnd(str, p) ==
    IF p > Len(str) \/ ~IsDigit(str[p]) THEN p - 1 ELSE DigitsEnd(str, p + 1)

\* The expression is deterministic: the sign, the whole digit run, the
\* fraction and the white-space character are each taken when present, and
\* giving any of them back leaves a character the unit token cannot start
\* with.  Each step below returns the position where group 1 ends when the
\* rest of the expression matches, and 0 when it does not.

\* t(?:[^a-z]|$) at position ts
TokenAt(str, t, ts) ==
    /\ ts + Len(t) - 1 <= Len(str)
    /\ \A j \in 1..Len(t) : LowerChar(str[ts + j - 1]) = LowerChar(t[j])
    /\ (ts + Len(t) - 1 = Len(str) \/ ~IsLetter(str[ts + Len(t)]))

\* \s?t(?:[^a-z]|$) after group 1, which ends at fe
MatchToken(str, t, fe) ==
    IF TokenAt(str, t, IF fe + 1 <= Len(str) /\ IsSpace(str[fe + 1])
                       THEN fe + 2 ELSE fe + 1)
    THEN fe
    ELSE 0

\* (?:\.\d+)? and the rest after the digit run, which ends at de
MatchFraction(str, t, de) ==
    MatchToken(str, t,
               IF de + 2 <= Len(str) /\ str[de + 1] = "." /\ IsDigit(str[de + 2])
               THEN DigitsEnd(str, de + 2)
               ELSE de)

\* \d+ and the rest, from position p
MatchRun(str, t, p, de) == IF de >= p THEN MatchFraction(str, t, de) ELSE 0

\* the whole expression, from position i
MatchAt(str, t, i) ==
    MatchRun(str, t, IF str[i] = "-" THEN i + 1 ELSE i,
             DigitsEnd(str, IF str[i] = "-" THEN i + 1 ELSE i))

\* the least member of a set of positions, 0 when it is empty
First(at) == IF at = {} THEN 0 ELSE CHOOSE j \in at : \A k \in at : j <= k

\* the numeral of group 1 of the match that starts at i; 0 when i is 0
Matched(str, t, i) ==
    IF i = 0 THEN Zero ELSE Number(SubSeq(str, i, MatchAt(str, t, i)))

\* reg.exec(str) finds the leftmost match
matchUnit(str, t) ==
    Matched(str, t, First({i \in 1..Len(str) : MatchAt(str, t, i) # 0}))

---------------------------------------------------------------------------
(* Duration.#readString: the free-form scan *)

\* the unit tokens tried for each unit, in the order of the || chains
Tokens(k) ==
    CASE k = "d" -> <<"d", "days", "day">>
      [] k = "h" -> <<"h", "hours", "hour">>
      [] k = "m" -> <<"m", "min", "minute", "mins", "minutes">>
      [] k = "s" -> <<"s", "sec", "second", "secs", "seconds">>
      [] k = "ms" -> <<"ms", "millisecond", "milliseconds">>
      [] k = "ns" -> <<"ns", "nanosecond", "nanoseconds">>
      [] k = "us" -> <<"µs", "microsecond", "microseconds", "us">>

\* matchUnit(str, ts[1]) || matchUnit(str, ts[2]) || ..: the first number that
\* is not 0, and the last one when all are 0
RECURSIVE MatchAny(_, _)
MatchNext(str, ts, x) ==
    IF Len(ts) = 1 \/ Truthy(x) THEN x ELSE MatchAny(str, Tail(ts))

MatchAny(str, ts) == MatchNext(str, ts, matchUnit(str, Chars(ts[1])))

\* days, hours, .., nanoseconds of the source
MatchAll(str) == [k \in KeySet |-> MatchAny(str, Tokens(k))]

\* the size of the unit k in milliseconds
Size(k) ==
    CASE k = "d" -> DAY
      [] k = "h" -> HOUR
      [] k = "m" -> MINUTE
      [] k = "s" -> SECOND
      [] k = "ms" -> MILLISECOND
      [] k = "us" -> MICROSECOND
      [] k = "ns" -> NANOSECOND

Term_unscaled(k, x) == x

\* the term of unit k in the sum for raw: the number matched times the size
\* of the unit, the milliseconds as they are
Term(k, x) == IF k = "ms" THEN x ELSE NumTimes(x, Size(k))

\* days * DAY + hours * HOUR + minutes * MINUTE + seconds * SECOND +
\* milliseconds + microseconds * MICROSECOND + nanoseconds * NANOSECOND, added
\* from the left: the sum of the first i terms
RECURSIVE SumTerms(_, _)
SumNext(u, i, t) == IF i = 1 THEN t ELSE NumAdd(SumTerms(u, i - 1), t)

SumTerms(u, i) == SumNext(u, i, Term(Keys[i], u[Keys[i]]))

\* the object returned for the numbers u matched
ReadUnits(u) ==
    [raw |-> SumTerms(u, Len(Keys)),
     d |-> u["d"], h |-> u["h"], m |-> u["m"], s |-> u["s"],
     ms |-> u["ms"], ns |-> u["ns"], us |-> u["us"]]

readString(str) == ReadUnits(MatchAll(RemoveSpacePairs(str)))

---------------------------------------------------------------------------
(* JavaScript values passed to the constructor and to the methods *)

Value(kind, num, str) == [kind |-> kind, num |-> num, str |-> str]

undefined == Value("undefined", Zero, <<>>)

NumberValue(x) == Value("number", x, <<>>)

StringValue(str) == Value("string", Zero, str)

\* a Duration object whose field raw is raw
DurationValue(raw) == Value("Duration", raw, <<>>)

\* a Date object whose getTime() is time
DateValue(time) == Value("Date", time, <<>>)

\* a plain object {}
PlainObject == Value("object", Zero, <<>>)

\* a call that returns a number, and a call that throws
Return(x) == [ok |-> TRUE, raw |-> x, error |-> ""]

Throw(error) == [ok |-> FALSE, raw |-> Zero, error |-> error]

---------------------------------------------------------------------------
(* The constructor and Duration.parseISOString, which call each other *)

RECURSIVE NewDuration(_)

parseISOString_anyDate(isoString) ==
    LET lower      == toLowerCase(isoString)
        components == split(slice(lower, 1), "t")
    IN  IF ~startsWith(lower, "p") \/ ~includes(lower, "t")
        THEN Throw("Error: Invalid ISO 8601 duration")
        ELSE Return(NumAdd(
                 NewDuration(StringValue(components[2])).raw,
                 NewDuration(IF Len(components) >= 3
                             THEN StringValue(components[3])
                             ELSE undefined).raw))

\* components[0], [1], [2] of the source are components[1], [2], [3] here;
\* an index past the end of the array reads undefined
parseISOString(isoString) ==
    LET lower      == toLowerCase(isoString)
        components == split(slice(lower, 1), "t")
    IN  IF ~startsWith(lower, "p") \/ ~includes(lower, "t")
        THEN Throw("Error: Invalid ISO 8601 duration")
        ELSE IF includes(components[1], "y") \/ includes(components[1], "m")
        THEN Throw("Error: Year and month are not supported.")
        ELSE Return(NumAdd(
                 NewDuration(StringValue(components[2])).raw,
                 NewDuration(IF Len(components) >= 3
                             THEN StringValue(components[3])
                             ELSE undefined).raw))

NewDuration_clamped(timestamp) ==
    LET ts == IF timestamp.kind = "undefined" THEN NumberValue(Zero) ELSE timestamp
    IN  CASE ts.kind = "string" ->
                LET iso == parseISOString(ts.str)
                IN  IF iso.ok THEN Return(iso.raw)
                    ELSE Return(readString(ts.str).raw)
          [] ts.kind = "Duration" -> Return(ts.num)
          [] ts.kind = "number" ->
                Return(IF NumSign(ts.num) < 0 THEN Zero ELSE ts.num)
          [] OTHER -> Throw("TypeError: Unsupported parameter")

NewDuration_lenient(timestamp) ==
    LET ts == IF timestamp.kind = "undefined" THEN NumberValue(Zero) ELSE timestamp
    IN  CASE ts.kind = "string" ->
                LET iso == parseISOString(ts.str)
                IN  IF iso.ok THEN Return(iso.raw)
                    ELSE Return(readString(ts.str).raw)
          [] ts.kind = "Duration" -> Return(ts.num)
          [] ts.kind = "number" -> Return(ts.num)
          [] OTHER -> Return(Zero)

NewDuration_strict(timestamp) ==
    LET ts == IF timestamp.kind = "undefined" THEN NumberValue(Zero) ELSE timestamp
    IN  CASE ts.kind = "string" -> parseISOString(ts.str)
          [] ts.kind = "Duration" -> Return(ts.num)
          [] ts.kind = "number" -> Return(ts.num)
          [] OTHER -> Throw("TypeError: Unsupported parameter")

\* constructor(timestamp = 0): the result is the field raw of the new object
NewDuration(timestamp) ==
    LET ts == IF timestamp.kind = "undefined" THEN NumberValue(Zero) ELSE timestamp
    IN  CASE ts.kind = "string" ->
                LET iso == parseISOString(ts.str)
                IN  IF iso.ok THEN Return(iso.raw)
                    ELSE Return(readString(ts.str).raw)
          [] ts.kind = "Duration" -> Return(ts.num)
          [] ts.kind = "number" -> Return(ts.num)
          [] OTHER -> Throw("TypeError: Unsupported parameter")

---------------------------------------------------------------------------
(* Arithmetic and comparison: each takes the field raw of the receiver and  *)
(* returns the field raw of the Duration it constructs                      *)

abs(raw) == NewDuration(NumberValue(NumAbs(raw))).raw

negated_flip(raw) == NewDuration(NumberValue(NumNeg(raw))).raw

negated(raw) == NewDuration(NumberValue(NumNeg(NumAbs(raw)))).raw

\* myDuration1, myDuration2: a Duration is taken as it is, a string or a
\* number is given to the constructor, a Date gives its getTime(), and
\* anything else gives new Duration()
Coerce(duration) ==
    IF duration.kind = "Duration" THEN duration.num
    ELSE NewDuration(CASE duration.kind \in {"string", "number"} -> duration
                       [] duration.kind = "Date" -> NumberValue(duration.num)
                       [] OTHER -> undefined).raw

between_absolute(duration1, duration2) ==
    NumAbs(NumSub(Coerce(duration1), Coerce(duration2)))

\* static between(duration1, duration2)
between(duration1, duration2) ==
    NewDuration(NumberValue(NumSub(Coerce(duration1), Coerce(duration2)))).raw

minus(raw, that) == between(DurationValue(raw), that)

\* when instanceof Date ? when.getTime() : when
TimeOf(when) == IF when.kind = "Date" THEN NumberValue(when.num) ELSE when

\* static since(when), now the value that Date.now() returns in the call
since(when, now) == between(TimeOf(when), NumberValue(now))

\* static till(when), now the value that Date.now() returns in the call
till(when, now) == between(NumberValue(now), TimeOf(when))

plus_unparsed(raw, that) ==
    NewDuration(NumberValue(NumAdd(raw, that.num))).raw

plus(raw, that) ==
    LET thatDuration == NewDuration(that)
    IN  NewDuration(NumberValue(NumAdd(raw, thatDuration.raw))).raw

\* clone(): new Duration(this.raw)
clone(raw) == NewDuration(NumberValue(raw)).raw

\* multipliedBy(scalar), for an integer scalar
multipliedBy(raw, scalar) ==
    NewDuration(NumberValue(NumTimes(raw, NumOf(scalar)))).raw

\* dividedBy(scalar), for an integer scalar that is not 0
dividedBy(raw, scalar) == NewDuration(NumberValue(NumDiv(raw, scalar))).raw

compareTo_reversed(raw, that) ==
    IF raw = that THEN 0 ELSE IF NumGreater(that, raw) THEN 1 ELSE -1

compareTo(raw, that) ==
    IF raw = that THEN 0 ELSE IF NumGreater(raw, that) THEN 1 ELSE -1

equals(raw, that) == IF raw = that THEN TRUE ELSE FALSE

---------------------------------------------------------------------------
(* The texts of a Duration.  A text that a method returns is a string of  *)
(* the model checker; String(n) of an integer is its decimal numeral.     *)

\* toISOString(): P[dD]T[hH][mM][s.msS] of the units u of this.array; the
\* milliseconds are written as they are, without leading zeros
IsoOf(u) ==
    "P" \o (IF u.d # 0 THEN ToString(u.d) \o "D" ELSE "")
        \o "T"
        \o (IF u.h # 0 THEN ToString(u.h) \o "H" ELSE "")
        \o (IF u.m # 0 THEN ToString(u.m) \o "M" ELSE "")
        \o (IF u.s # 0 \/ u.ms # 0
            THEN ToString(u.s) \o "." \o ToString(u.ms) \o "S"
            ELSE "")

toISOString(raw) == IsoOf(array(raw))

\* Array.prototype.join
RECURSIVE join(_, _)
join(strs, sep) ==
    IF strs = <<>> THEN ""
    ELSE IF Len(strs) = 1 THEN strs[1]
    ELSE strs[1] \o sep \o join(Tail(strs), sep)

\* String.prototype.padStart(len, "0")
RECURSIVE padStart(_, _)
padStart(str, len) == IF Len(str) >= len THEN str ELSE padStart("0" \o str, len)

\* String.prototype.trim, for the blanks of these texts
RECURSIVE trim(_)
trim(str) ==
    IF str = "" THEN str
    ELSE IF SubSeq(str, 1, 1) = " " THEN trim(SubSeq(str, 2, Len(str)))
    ELSE IF SubSeq(str, Len(str), Len(str)) = " "
         THEN trim(SubSeq(str, 1, Len(str) - 1))
    ELSE str

\* the argument values of the text methods: none (the default []), null,
\* true, or an array of strings
null == Value("null", Zero, <<>>)

true == Value("true", Zero, <<>>)

ArrayValue(strs) == Value("array", Zero, strs)

\* Array.isArray(values) && values.length != 0
IsList(values) == values.kind = "array" /\ values.str # <<>>

Filter_all(u, values) == Keys

\* the keys of this.array after the filter of the text methods: the keys that
\* values includes when it is a list with members; else the keys of the
\* units that are not 0 when values is true, and all the keys otherwise
Filter(u, values) ==
    SelectSeq(Keys,
              LAMBDA k : IF IsList(values) THEN includes(values.str, k)
                         ELSE values.kind = "true" => u[k] # 0)

\* the units of the keys mapped to value and key, joined by blanks
ShortOf(u, keys) ==
    join([i \in 1..Len(keys) |-> ToString(u[keys[i]]) \o keys[i]], " ")

toShortString(raw, values) ==
    LET u == array(raw) IN ShortOf(u, Filter(u, values))

toString(raw) == toShortString(raw, undefined)

getSimpleFormattedDuration(raw) == toString(raw)

keyList(k) ==
    CASE k = "d" -> "days"
      [] k = "h" -> "hours"
      [] k = "m" -> "minutes"
      [] k = "s" -> "seconds"
      [] k = "ms" -> "milliseconds"
      [] k = "us" -> "microseconds"
      [] k = "ns" -> "nanoseconds"

\* the name written for the unit k of value v: keyList[k].slice(0, -1) for
\* the value 1 in the branch without a list, keyList[k] in the branch of a list
Name(k, v, values) ==
    IF ~IsList(values) /\ v = 1
    THEN SubSeq(keyList(k), 1, Len(keyList(k)) - 1)
    ELSE keyList(k)

DescriptiveOf(u, keys, values) ==
    join([i \in 1..Len(keys) |->
              ToString(u[keys[i]]) \o " " \o Name(keys[i], u[keys[i]], values)],
         ", ")

toDescriptiveString(raw, values) ==
    LET u == array(raw) IN DescriptiveOf(u, Filter(u, values), values)

\* in_words.ts: the word tables; the entry of digit n is at n + 1
digits ==
    <<"", "one", "two", "three", "four", "five", "six", "seven", "eight",
      "nine">>

teens ==
    <<"", "eleven", "twelve", "thirteen", "fourteen", "fifteen", "sixteen",
      "seventeen", "eighteen", "nineteen">>

tens ==
    <<"", "ten", "twenty", "thirty", "forty", "fifty", "sixty", "seventy",
      "eighty", "ninety">>

\* the templates of the places: "{tens}", or "{ones}" and the text after it
tenPowers ==
    <<"", "{tens}", " hundred and", " thousand,", "{tens}", " hundred and",
      " million,", "{tens}", " hundred and", " billion,", "{tens}",
      " hundred and", " trillion,", "{tens}", " hundred and", " thousand,",
      "{tens}">>

getTenPower(i) == tenPowers[(i % Len(tenPowers)) + 1]

\* Number(x) of a character of n.toString(): the minus sign gives NaN
NaN == -1

DigitNumber(c) == IF IsDigit(c) THEN DigitValue(c) ELSE NaN

\* table[n] inside a text: "undefined" when n is NaN
Word(table, n) == IF n = NaN THEN "undefined" ELSE table[n + 1]

\* getTenPower(i).replace("{ones}", digits[n]).replace("{tens}", tens[n])
Place(i, n) ==
    IF getTenPower(i) = "{tens}" THEN Word(tens, n)
    ELSE Word(digits, n) \o getTenPower(i)

\* `${teens[n]} ${getTenPower(i).replace(/\{ones\}\s?/, "")}`
TeenPlace(i, n) ==
    Word(teens, n) \o " "
        \o (IF getTenPower(i) = "{tens}" THEN "{tens}"
            ELSE SubSeq(getTenPower(i), 2, Len(getTenPower(i))))

\* the loop over the digits, the last digit first: digitStrings from place i
RECURSIVE DigitStrings(_, _)
DigitStrings(digitNumbers, i) ==
    IF i >= Len(digitNumbers) THEN <<>>
    ELSE IF /\ getTenPower(i + 1) = "{tens}"
            /\ i + 1 < Len(digitNumbers)
            /\ digitNumbers[i + 2] = 1
         THEN <<TeenPlace(i, digitNumbers[i + 1])>>
                  \o DigitStrings(digitNumbers, i + 2)
         ELSE <<Place(i, digitNumbers[i + 1])>>
                  \o DigitStrings(digitNumbers, i + 1)

\* Array.prototype.reverse
reverse(seq) == [i \in 1..Len(seq) |-> seq[Len(seq) + 1 - i]]

\* the default export of in_words.ts, for an integer n
InWords(n) ==
    IF n = 0 THEN "zero"
    ELSE join(reverse(DigitStrings(
                  reverse([i \in 1..Len(ToString(n)) |->
                               DigitNumber(SubSeq(ToString(n), i, i))]), 0)),
              " ")

WordOf(u, keys, values) ==
    join([i \in 1..Len(keys) |->
              trim(InWords(u[keys[i]])) \o " "
                  \o Name(keys[i], u[keys[i]], values)],
         ", ")

toWordString(raw, values) ==
    LET u == array(raw) IN WordOf(u, Filter(u, values), values)

\* getFormattedDurationArray(): the values padded with zeros, ms, us and ns to
\* three characters and the others to two
getFormattedDurationArray(raw) ==
    LET u == array(raw)
    IN  [i \in 1..Len(Keys) |->
             padStart(ToString(u[Keys[i]]),
                      IF Keys[i] \in {"ms", "us", "ns"} THEN 3 ELSE 2)]

\* Object.keys(keyList).indexOf(k)
indexOf(k) ==
    IF k \in KeySet THEN (CHOOSE i \in 1..Len(Keys) : Keys[i] = k) - 1 ELSE -1

\* Array.prototype.slice(from, to) for to >= 0: a negative from counts from
\* the end
Slice(seq, from, to) ==
    SubSeq(seq, (IF from < 0 THEN Len(seq) + from ELSE from) + 1,
           Min(to, Len(seq)))

\* String.prototype.toLowerCase of a key
LowerKey(k) == join(toLowerCase(Chars(k)), "")

\* toTimeString(fromT = "d", toT = "ns"), for strings fromT and toT
toTimeString(raw, fromT, toT) ==
    IF LowerKey(fromT) \notin KeySet \/ LowerKey(toT) \notin KeySet
    THEN getSimpleFormattedDuration(raw)
    ELSE join(Slice(getFormattedDurationArray(raw), indexOf(fromT),
                    indexOf(toT) + 1), ":")

---------------------------------------------------------------------------
(* The state machine: Duration objects and the calls made on them *)

\* what a call returned: this, a new Duration, a number, a boolean, an error
\* or a text
RetThis == [kind |-> "this", raw |-> Zero, int |-> 0, bool |-> FALSE,
     str |-> ""]

RetDuration(raw) == [kind |-> "Duration", raw |-> raw, int |-> 0, bool |-> FALSE,
     str |-> ""]

RetNumber(x) == [kind |-> "number", raw |-> x, int |-> 0, bool |-> FALSE,
     str |-> ""]

RetInt(i) == [kind |-> "int", raw |-> Zero, int |-> i, bool |-> FALSE,
     str |-> ""]

RetBoolean(v) == [kind |-> "boolean", raw |-> Zero, int |-> 0, bool |-> v,
     str |-> ""]

RetThrow == [kind |-> "throw", raw |-> Zero, int |-> 0, bool |-> FALSE,
     str |-> ""]

RetString(str) ==
    [kind |-> "string", raw |-> Zero, int |-> 0, bool |-> FALSE, str |-> str]

\* a reference to the object of the module that is named
RetReference(name) ==
    [kind |-> "reference", raw |-> Zero, int |-> 0, bool |-> FALSE,
     str |-> name]

\* a plain object with the fields raw, d, h, m, s, ms, ns, us
RetObject(obj) ==
    [kind |-> "object", raw |-> obj.raw, int |-> 0, bool |-> FALSE, str |-> "",
     obj |-> obj]

\* a Duration object made by new Duration(src)
Object(src) == [src |-> src, raw |-> NewDuration(src).raw]

\* one call: op on the receiver on ("a", or "ret" for the Duration the call
\* before returned), whose raw was pre, with unit key and number n or value arg
Call(op, on, key, n, pre, arg, ret) ==
    [op |-> op, on |-> on, key |-> key, n |-> n, pre |-> pre, arg |-> arg,
     ret |-> ret]

Last == hist[Len(hist)]

\* the receiver of the next call of the expression: a for the first call,
\* then the Duration that the call before returned
Receivers ==
    IF hist = <<>> THEN {"a"}
    ELSE IF Last.ret.kind = "Duration" THEN {"ret"}
    ELSE {}

Recv(on) == IF on = "a" THEN a.raw ELSE Last.ret.raw

\* the largest value of each unit below days, and of days in this model
UnitTop(k) ==
    CASE k = "d" -> MaxDays
      [] k = "h" -> 23
      [] k \in {"m", "s"} -> 59
      [] OTHER -> 999

\* the numbers given to the setter of unit k: 15 (MaxDays for days), and the
\* unit's current value
SetArgs(k) == {Min(15, UnitTop(k)), Unit(k, a.raw)}

\* the units that addDays, addMinutes and addNanoseconds add to, and the units
\* that are assigned to (h, s, us)
AddKeys == {"d", "m", "ns"}

AssignKeys == {"h", "s", "us"}

\* a setter, an adder or a unit assignment on a: raw changes, this is returned
Mutate(op, k, n, post) ==
    /\ Len(hist) < MaxCalls
    /\ a' = [a EXCEPT !.raw = post]
    /\ hist' = Append(hist, Call(op, "a", k, n, a.raw, undefined, RetThis))
    /\ UNCHANGED <<b, BaseDurationObj>>

setDaysCall ==
    /\ Len(hist) < MaxCalls
    /\ \E n \in SetArgs("d") : Mutate("set", "d", n, setDays(a.raw, n))

setHoursCall ==
    /\ Len(hist) < MaxCalls
    /\ \E n \in SetArgs("h") : Mutate("set", "h", n, setHours(a.raw, n))

setMinutesCall ==
    /\ Len(hist) < MaxCalls
    /\ \E n \in SetArgs("m") : Mutate("set", "m", n, setMinutes(a.raw, n))

setSecondsCall ==
    /\ Len(hist) < MaxCalls
    /\ \E n \in SetArgs("s") : Mutate("set", "s", n, setSeconds(a.raw, n))

setMillisecondsCall ==
    /\ Len(hist) < MaxCalls
    /\ \E n \in SetArgs("ms") : Mutate("set", "ms", n, setMilliseconds(a.raw, n))

setMicrosecondsCall ==
    /\ Len(hist) < MaxCalls
    /\ \E n \in SetArgs("us") : Mutate("set", "us", n, setMicroseconds(a.raw, n))

setNanosecondsCall ==
    /\ Len(hist) < MaxCalls
    /\ \E n \in SetArgs("ns") : Mutate("set", "ns", n, setNanoseconds(a.raw, n))

\* addDays(n) .. addNanoseconds(n)
addCall ==
    \E k \in AddKeys, n \in {1} : Mutate("add", k, n, AddUnit(k, a.raw, n))

\* a.d = val .. a.ns = val
assignCall ==
    \E k \in AssignKeys, val \in {-2} :
        Mutate("assign", k, val, AssignUnit(k, a.raw, val))

\* the magnitudes the receiver starts from: positive, zero and negative, whole
\* milliseconds and with a sub-millisecond part
StartNumbers ==
    {Zero, Num("1.035"), Num("184540500.2501"), Num("-172799999.999999"),
     Num("59834344.334")}

InitUnits ==
    /\ StaticInit
    /\ a \in {Object(NumberValue(x)) : x \in StartNumbers}
    /\ b = Object(undefined)
    /\ hist = <<>>

NextUnits ==
    \/ setDaysCall
    \/ setHoursCall
    \/ setMinutesCall
    \/ setSecondsCall
    \/ setMillisecondsCall
    \/ setMicrosecondsCall
    \/ setNanosecondsCall
    \/ addCall
    \/ assignCall

SpecUnits == InitUnits /\ [][NextUnits]_vars

---------------------------------------------------------------------------
(* Calls that change no Duration: arithmetic, comparison, construction *)

Pure_inplace(op, on, arg, ret) ==
    /\ Len(hist) < MaxCalls
    /\ hist' = Append(hist, Call(op, on, "", 0, Recv(on), arg, ret))
    /\ a' = IF ret.kind = "Duration" THEN [a EXCEPT !.raw = ret.raw] ELSE a
    /\ UNCHANGED <<b, BaseDurationObj>>

\* a call on the receiver on that leaves a and b as they are
Pure(op, on, arg, ret) ==
    /\ Len(hist) < MaxCalls
    /\ hist' = Append(hist, Call(op, on, "", 0, Recv(on), arg, ret))
    /\ UNCHANGED <<a, b, BaseDurationObj>>

\* the values given to plus and minus: the Duration b, a number and a string
Operands ==
    {DurationValue(b.raw), NumberValue(Num("-2.0005")),
     StringValue(Chars("119 seconds"))}

plusCall ==
    \E on \in Receivers, that \in Operands :
        Pure("plus", on, that, RetDuration(plus(Recv(on), that)))

minusCall ==
    \E on \in Receivers, that \in Operands :
        Pure("minus", on, that, RetDuration(minus(Recv(on), that)))

absCall == \E on \in Receivers : Pure("abs", on, undefined, RetDuration(abs(Recv(on))))

negatedCall ==
    \E on \in Receivers : Pure("negated", on, undefined, RetDuration(negated(Recv(on))))

compareToCall ==
    \E on \in Receivers :
        Pure("compareTo", on, DurationValue(b.raw), RetInt(compareTo(Recv(on), b.raw)))

equalsCall ==
    \E on \in Receivers :
        Pure("equals", on, DurationValue(b.raw), RetBoolean(equals(Recv(on), b.raw)))

\* the values given to the constructor
NewArgs ==
    {undefined, null, true, PlainObject, DateValue(NumOf(86400000)),
     NumberValue(NumOf(-1)), NumberValue(Num("3545346.000001")),
     DurationValue(a.raw), StringValue(Chars("60000 ms"))}

\* the constructor returned or threw r: when it throws, b is not assigned
Construct(timestamp, r) ==
    /\ hist = <<>>
    /\ b' = IF r.ok THEN [src |-> timestamp, raw |-> r.raw] ELSE b
    /\ hist' = Append(hist, Call("new", "", "", 0, Zero, timestamp,
                                 IF r.ok THEN RetDuration(r.raw) ELSE RetThrow))
    /\ UNCHANGED <<a, BaseDurationObj>>

\* b = new Duration(timestamp), the first call of an expression
newCall ==
    /\ hist = <<>>
    /\ \E timestamp \in NewArgs : Construct(timestamp, NewDuration(timestamp))

\* the values the two Durations are constructed from
StartValues ==
    {undefined, NumberValue(NumOf(121000)), NumberValue(NumOf(-5000)),
     NumberValue(Num("1.035")), NumberValue(Num("-1.001001")),
     StringValue(Chars("60 seconds")), StringValue(Chars("1 minute"))}

OtherValues ==
    {NumberValue(NumOf(119000)), NumberValue(NumOf(-119000)),
     StringValue(Chars("60000 ms"))}

Init ==
    /\ StaticInit
    /\ a \in {Object(v) : v \in StartValues}
    /\ b \in {Object(v) : v \in OtherValues}
    /\ hist = <<>>

Next ==
    \/ plusCall
    \/ minusCall
    \/ absCall
    \/ negatedCall
    \/ compareToCall
    \/ equalsCall
    \/ newCall

Spec == Init /\ [][Next]_vars

---------------------------------------------------------------------------
(* Calls of the parser, one string in each run *)

\* an ISO duration text P[nD]T[nH][nM][n[.f]S] written from its fields; a
\* field that is 0 is left out, f is the fraction of the seconds in digits
IsoText(c) ==
    "P" \o (IF c.dd = 0 THEN "" ELSE ToString(c.dd) \o "D")
        \o "T"
        \o (IF c.hh = 0 THEN "" ELSE ToString(c.hh) \o "H")
        \o (IF c.mm = 0 THEN "" ELSE ToString(c.mm) \o "M")
        \o (IF c.ss = 0 /\ c.f = 0 THEN ""
            ELSE ToString(c.ss) \o (IF c.f = 0 THEN "" ELSE "." \o ToString(c.f))
                 \o "S")

\* the fields of the ISO texts parsed: days, hours, minutes, seconds, and f,
\* the three digits of the fraction of the seconds (none when 0)
IsoCases ==
    [dd : {0, 1, 15}, hh : {0, 1}, mm : {0, 30}, ss : {0, 45}, f : {0, 500}]

\* the milliseconds of the ISO text written from the fields c
IsoMillis(c) ==
    NumOf(c.dd * 86400000 + c.hh * 3600000 + c.mm * 60000 + c.ss * 1000 + c.f)

\* the texts parsed: the ISO texts and free-form texts
ParseInputs ==
    {Chars(IsoText(c)) : c \in IsoCases}
    \cup {Chars(x) : x \in
              {"", "1m2s", "131 days, 50 hours, and 3600 secs", "-5 seconds",
               "5 seconds", "60 seconds", "1 minute", "60000 ms", "119 seconds",
               "past 5 minutes", "P1Y2M3DT4H", "3 minutes", "-3 minutes",
               "30 seconds", "P1D", "p1dt1h30m", "P2MT1H", "P1YT1H", "T1H",
               "3600 secs, 50 hours and 131 days", "2s1m",
               "1d 2h 3m 4s 5ms 6us 7ns", "7ns 6us 5ms 4s 3m 2h 1d",
               "0s 5sec", "5 s 7 sec", "7 sec 5 s", "3 minutes 4 min",
               "soon", "42", "1.5 h", "-1.5 h", "2.5d", "-2.5d", "0.5 ms",
               "-0.5 ms", "12.75 mins", "-12.75 mins", "4.5 us", "-4.5 us",
               "4090 sec 4939  days 7342  hour 2324milliseconds 4344 min"}}

\* a call of a static parsing function or of the constructor on a string
Parse(op, str, ret) ==
    /\ hist = <<>>
    /\ hist' = <<Call(op, "", "", 0, Zero, StringValue(str), ret)>>
    /\ UNCHANGED <<a, b, BaseDurationObj>>

parseISOStringCall ==
    \E str \in ParseInputs :
        Parse("parseISOString", str,
              IF parseISOString(str).ok
              THEN RetNumber(parseISOString(str).raw)
              ELSE RetThrow)

\* what Duration.fromString returns for the object r read from the text:
\* r itself when doNotParse is set, else new Duration(r.raw)
FromString(r, doNotParse) ==
    IF doNotParse THEN RetObject(r)
    ELSE RetDuration(NewDuration(NumberValue(r.raw)).raw)

\* Duration.fromString(str, doNotParse): the free-form scan alone
fromStringCall ==
    \E str \in ParseInputs, doNotParse \in BOOLEAN :
        Parse("fromString", str, FromString(readString(str), doNotParse))

\* b = new Duration(str)
newFromStringCall ==
    \E str \in ParseInputs :
        Construct(StringValue(str), NewDuration(StringValue(str)))

InitParse ==
    /\ StaticInit
    /\ a = Object(undefined)
    /\ b = Object(undefined)
    /\ hist = <<>>

NextParse ==
    \/ parseISOStringCall
    \/ fromStringCall
    \/ newFromStringCall

SpecParse == InitParse /\ [][NextParse]_vars

---------------------------------------------------------------------------
(* Calls of the methods that return a text, on one Duration in each run *)

\* days, hours, minutes, seconds and milliseconds of the Durations
TextCases == [dd : {0, 15}, hh : {0, 1}, mm : {0, 30}, ss : {0, 45},
              f : {0, 5, 500}]

\* the units of a case, as this.array has them
CaseUnits(c) ==
    [d |-> c.dd, h |-> c.hh, m |-> c.mm, s |-> c.ss, ms |-> c.f, us |-> 0,
     ns |-> 0]

\* the arguments of new Duration(..): the cases as numbers of milliseconds
\* and as the ISO texts of their units, and some more numbers
TextStarts ==
    {NumberValue(IsoMillis(c)) : c \in TextCases}
        \cup {StringValue(Chars(IsoOf(CaseUnits(c)))) : c \in TextCases}
        \cup {NumberValue(x) :
                 x \in {NumOf(1000), NumOf(121920), NumOf(93784005),
                        NumOf(-5000), NumOf(-5), Num("1.035")}}

\* a call on a that returns a text
Text(op, key, arg, str) ==
    /\ hist = <<>>
    /\ hist' = <<Call(op, "a", key, 0, a.raw, arg, RetString(str))>>
    /\ UNCHANGED <<a, b, BaseDurationObj>>

toISOStringCall == Text("toISOString", "", undefined, toISOString(a.raw))

\* the arguments given for values: none, null, true, and lists of keys, one of
\* them empty and one not in the order of the units
ValuesArgs ==
    {undefined, null, true, ArrayValue(<<>>), ArrayValue(<<"m", "s">>),
     ArrayValue(<<"s", "d">>), ArrayValue(<<"ms">>)}

toShortStringCall ==
    \E values \in ValuesArgs :
        Text("toShortString", "", values, toShortString(a.raw, values))

toStringCall == Text("toString", "", undefined, toString(a.raw))

toDescriptiveStringCall ==
    \E values \in ValuesArgs :
        Text("toDescriptiveString", "", values,
             toDescriptiveString(a.raw, values))

toWordStringCall ==
    \E values \in ValuesArgs :
        Text("toWordString", "", values, toWordString(a.raw, values))

\* the pairs fromT, toT given to toTimeString: every pair of keys, a key in
\* upper case, and a string that is no key
TimeArgs ==
    {<<Keys[i], Keys[j]>> : i, j \in 1..Len(Keys)}
        \cup {<<"S", "ms">>, <<"x", "s">>}

\* toTimeString(fromT, toT), and toTimeString() with the defaults "d", "ns"
toTimeStringCall ==
    \/ \E ft \in TimeArgs :
           Text("toTimeString", "", ArrayValue(ft),
                toTimeString(a.raw, ft[1], ft[2]))
    \/ Text("toTimeString", "", undefined, toTimeString(a.raw, "d", "ns"))

\* b = new Duration(text) of the text that the call before returned
newFromTextCall ==
    /\ Len(hist) = 1
    /\ Last.op = "toISOString"
    /\ b' = Object(StringValue(Chars(Last.ret.str)))
    /\ hist' = Append(hist, Call("new", "", "", 0, Zero, b'.src,
                                 RetDuration(b'.raw)))
    /\ UNCHANGED <<a, BaseDurationObj>>

InitText ==
    /\ StaticInit
    /\ a \in {Object(v) : v \in TextStarts}
    /\ b = Object(undefined)
    /\ hist = <<>>

NextText ==
    \/ toISOStringCall
    \/ newFromTextCall
    \/ toShortStringCall
    \/ toStringCall
    \/ toDescriptiveStringCall
    \/ toWordStringCall
    \/ toTimeStringCall

SpecText == InitText /\ [][NextText]_vars

---------------------------------------------------------------------------
(* Calls of InWords, the default export of in_words.ts, on one integer in  *)
(* each run                                                                *)

InWordsCall ==
    /\ hist = <<>>
    /\ hist' = <<Call("InWords", "", "", Trunc(a.raw), Zero, NumberValue(a.raw),
                      RetString(InWords(Trunc(a.raw))))>>
    /\ UNCHANGED <<a, b, BaseDurationObj>>

InitWords ==
    /\ StaticInit
    /\ a \in {Object(NumberValue(NumOf(n))) : n \in 0..MaxNumber}
    /\ b = Object(undefined)
    /\ hist = <<>>

NextWords == InWordsCall

SpecWords == InitWords /\ [][NextWords]_vars

---------------------------------------------------------------------------
(* Calls of the static functions that read the clock, one in each run *)

\* the timestamps given as when, in milliseconds
Moments ==
    {Zero, NumOf(1000), NumOf(86400000), Num("1700000000000"),
     Num("1700000001500"), Num("1700000060000"), Num("1700086400000"),
     Num("1762239600000")}

\* the values that Date.now() returns
ClockReadings ==
    {NumOf(86400000), Num("1700000000000"), Num("1700000001500"),
     Num("1762239600000")}

\* when is a timestamp or a Date
Whens == {NumberValue(x) : x \in Moments} \cup {DateValue(x) : x \in Moments}

\* a call of a static function that reads the clock once, as now
Clock(op, when, now, raw) ==
    /\ hist = <<>>
    /\ hist' = <<Call(op, "", "", 0, now, when, RetDuration(raw))>>
    /\ UNCHANGED <<a, b, BaseDurationObj>>

sinceCall ==
    \E when \in Whens, now \in ClockReadings :
        Clock("since", when, now, since(when, now))

tillCall ==
    \E when \in Whens, now \in ClockReadings :
        Clock("till", when, now, till(when, now))

InitClock ==
    /\ StaticInit
    /\ a = Object(undefined)
    /\ b = Object(undefined)
    /\ hist = <<>>

NextClock ==
    \/ sinceCall
    \/ tillCall

SpecClock == InitClock /\ [][NextClock]_vars

---------------------------------------------------------------------------
(* Calls of toJSON() and of the getter json on two Durations, with calls   *)
(* of setSeconds on the first                                              *)

\* a.json or b.json: the getter writes the units of the Duration to
\* BaseDurationObj and returns that object
Json(op, on) ==
    LET this == IF on = "a" THEN a ELSE b
    IN  /\ Len(hist) < MaxCalls
        /\ BaseDurationObj' = json(this.raw, BaseDurationObj)
        /\ hist' = Append(hist, Call(op, on, "", 0, this.raw, undefined,
                                     RetReference("BaseDurationObj")))
        /\ UNCHANGED <<a, b>>

jsonCall == \E on \in {"a", "b"} : Json("json", on)

\* toJSON() returns this.json
toJSONCall == \E on \in {"a", "b"} : Json("toJSON", on)

InitJson ==
    /\ StaticInit
    /\ a \in {Object(v) : v \in StartValues}
    /\ b \in {Object(v) : v \in OtherValues}
    /\ hist = <<>>

NextJson ==
    \/ jsonCall
    \/ toJSONCall
    \/ setSecondsCall

SpecJson == InitJson /\ [][NextJson]_vars

---------------------------------------------------------------------------
(* Calls of every kind on two Durations: the calls that return a new       *)
(* Duration or a text, copies, and setters                                 *)

\* the scalars given to multipliedBy and dividedBy
Scalars == {2, -3}

multipliedByCall ==
    \E on \in Receivers, scalar \in Scalars :
        Pure("multipliedBy", on, NumberValue(NumOf(scalar)),
             RetDuration(multipliedBy(Recv(on), scalar)))

dividedByCall ==
    \E on \in Receivers, scalar \in Scalars :
        Pure("dividedBy", on, NumberValue(NumOf(scalar)),
             RetDuration(dividedBy(Recv(on), scalar)))

\* Duration.between(a, b)
betweenCall ==
    /\ hist = <<>>
    /\ Pure("between", "a", DurationValue(b.raw),
            RetDuration(between(DurationValue(a.raw), DurationValue(b.raw))))

\* b = new Duration(a), b = a.clone(), a = new Duration(b) or a = b.clone():
\* on is the Duration copied, and the other variable is assigned the copy
Copy(op, on) ==
    LET this == IF on = "a" THEN a ELSE b
        raw  == IF op = "clone" THEN clone(this.raw)
                ELSE NewDuration(DurationValue(this.raw)).raw
        copy == [src |-> DurationValue(this.raw), raw |-> raw]
    IN  /\ Len(hist) < MaxCalls
        /\ a' = IF on = "a" THEN a ELSE copy
        /\ b' = IF on = "a" THEN copy ELSE b
        /\ hist' = Append(hist, Call(op, on, "", 0, this.raw,
                                     IF op = "clone" THEN undefined
                                     ELSE DurationValue(this.raw),
                                     RetDuration(raw)))
        /\ UNCHANGED BaseDurationObj

newCopyCall == \E on \in {"a", "b"} : Copy("new", on)

cloneCall == \E on \in {"a", "b"} : Copy("clone", on)

InitValues ==
    /\ StaticInit
    /\ a \in {Object(v) : v \in {NumberValue(NumOf(121000)),
                                 NumberValue(Num("-1.001001"))}}
    /\ b \in {Object(v) : v \in {NumberValue(NumOf(119000)),
                                 StringValue(Chars("60000 ms"))}}
    /\ hist = <<>>

NextValues ==
    \/ plusCall
    \/ minusCall
    \/ absCall
    \/ negatedCall
    \/ multipliedByCall
    \/ dividedByCall
    \/ compareToCall
    \/ equalsCall
    \/ betweenCall
    \/ toISOStringCall
    \/ toShortStringCall
    \/ toStringCall
    \/ toDescriptiveStringCall
    \/ toWordStringCall
    \/ toTimeStringCall
    \/ newCopyCall
    \/ cloneCall
    \/ setSecondsCall
    \/ addCall
    \/ assignCall

SpecValues == InitValues /\ [][NextValues]_vars

---------------------------------------------------------------------------
(* Properties of the unit accessors and setters, checked under SpecUnits *)

\* the number of calls made
Calls == Len(hist)

\* the units u recombined exactly, in whole nanoseconds: the magnitude of
\* d*86_400_000 + h*3_600_000 + m*60_000 + s*1_000 + ms + us/1_000 +
\* ns/1_000_000 milliseconds
UnitsInNanos(u) ==
    BigTimesSmall(BigTimesSmall(BigTimesSmall(BigTimesSmall(BigTimesSmall(
    BigTimesSmall(BigOf(Abs(u.d)), 24, Abs(u.h)), 60, Abs(u.m)), 60, Abs(u.s)),
    1000, Abs(u.ms)), 1000, Abs(u.us)), 1000, Abs(u.ns))

\* no unit of u has the sign opposite to sgn
OneSign(u, sgn) == \A k \in KeySet : u[k] * sgn >= 0

\* the units u of a number of sign sgn recombined: the double nearest to the
\* exact sum (the sums of this model are below 2^53 nanoseconds)
Recombined(u, sgn) == NumDiv(Round(sgn, UnitsInNanos(u), 0, FALSE), 1000000)

\* C1: the seven unit accessors of new Duration(raw), for a raw of whole
\* nanoseconds of any sign, recombine to raw: d*86_400_000 + h*3_600_000 +
\* m*60_000 + s*1_000 + ms + us/1_000 + ns/1_000_000 = raw, taken to the
\* nearest double
C1_UnitsRecombine ==
    (Calls = 0 /\ a.src.kind = "number")
        => /\ OneSign(array(a.raw), NumSign(a.raw))
           /\ Recombined(array(a.raw), NumSign(a.raw)) = a.raw

\* the range of the unit k: 0..23 for hours, 0..59 for minutes and seconds,
\* 0..999 below, every n >= 0 for days
InRange(k, n) == n >= 0 /\ (k = "d" \/ n <= UnitTop(k))

\* C3: after setU(n) on a non-negative Duration with n inside the range of U,
\* the accessor of U returns n and the other six accessors return what they
\* returned before, and the setter returns this, so that the accessor of a
\* unit set earlier in the chain still returns the number it was set to
C3_SetThenGet ==
    \A i \in 1..Calls :
        (/\ hist[i].op = "set"
         /\ \A j \in 1..i : hist[j].op = "set" /\ InRange(hist[j].key, hist[j].n)
         /\ NumSign(hist[1].pre) >= 0
         /\ i = Calls)
            => /\ hist[i].ret = RetThis
               /\ Unit(hist[i].key, a.raw) = hist[i].n
               /\ \A k \in KeySet \ {hist[i].key} :
                      Unit(k, a.raw) = Unit(k, hist[i].pre)

\* C4: setting a unit to the value its accessor returns leaves raw unchanged,
\* for a Duration of any sign and each of the seven units
C4_SetCurrent ==
    (Calls > 0 /\ Last.op = "set" /\ Last.n = Unit(Last.key, Last.pre))
        => a.raw = Last.pre

C4_Witness ==
    /\ Calls > 0
    /\ Last.op = "set"
    /\ Last.key = "us"
    /\ NumSign(Last.pre) < 0
    /\ Last.n = Unit("us", Last.pre)
    /\ Last.n # 0
    /\ a.raw = Last.pre

\* t mod md for a natural number t, as t - md * (t div md)
BigMod(t, md) == BigInt(BigSub(t, BigTimesSmall(BigDivSmall(t, md).q, md, 0), 0))

\* the decomposition formula: days = trunc(raw / 86_400_000), hours =
\* trunc(raw / 3_600_000) mod 24, .., nanoseconds = trunc(raw * 1_000_000)
\* mod 1000, the quotients and products being those of doubles and each
\* result taking the sign of raw
Formula(k, raw) ==
    CASE k = "d" -> NumSign(raw) * BigInt(BigTrunc(NumDiv(NumAbs(raw), 86400000)))
      [] k = "h" -> NumSign(raw) * BigMod(BigTrunc(NumDiv(NumAbs(raw), 3600000)), 24)
      [] k = "m" -> NumSign(raw) * BigMod(BigTrunc(NumDiv(NumAbs(raw), 60000)), 60)
      [] k = "s" -> NumSign(raw) * BigMod(BigTrunc(NumDiv(NumAbs(raw), 1000)), 60)
      [] k = "ms" -> NumSign(raw) * BigMod(BigTrunc(NumAbs(raw)), 1000)
      [] k = "us" -> NumSign(raw) * BigMod(BigTrunc(NumTimes(NumAbs(raw), NumOf(1000))), 1000)
      [] k = "ns" ->
            NumSign(raw) * BigMod(BigTrunc(NumTimes(NumAbs(raw), NumOf(1000000))), 1000)

\* what the call c adds to a raw: (n - current(U)) * size(U) for a set and
\* for an assignment, n * size(U) for an add
Delta(c, raw) ==
    IF c.op = "add"
    THEN NumTimes(NumOf(c.n), Size(c.key))
    ELSE NumTimes(NumOf(c.n - Formula(c.key, raw)), Size(c.key))

\* the starting raw plus the sum of what the first i calls add
RECURSIVE Total(_)
Plus(c, raw) == NumAdd(raw, Delta(c, raw))

Total(i) == IF i = 0 THEN (IF Calls = 0 THEN a.raw ELSE hist[1].pre) ELSE Plus(hist[i], Total(i - 1))

\* C5: after any sequence of setters, adders and unit assignments, every
\* unit accessor equals the decomposition formula applied to the current raw,
\* and raw is the starting raw plus the sum over the calls of
\* (n - current(U)) * size(U) for a set and n * size(U) for an add
C5_UnitsFollowRaw ==
    /\ \A k \in KeySet : Unit(k, a.raw) = Formula(k, a.raw)
    /\ a.raw = Total(Calls)

C5_Witness ==
    /\ Calls = 2
    /\ hist[1].op = "assign"
    /\ hist[2].op = "add"
    /\ hist[1].key = "h"
    /\ hist[2].key = "ns"
    /\ a.raw # hist[1].pre
    /\ a.raw = Total(2)

---------------------------------------------------------------------------
(* Properties of construction, arithmetic and comparison, checked under Spec *)

\* C2: new Duration(n) stores raw = n for every number n, a negative n
\* included, and new Duration() is the zero duration: raw = 0 and each of the
\* seven unit accessors returns 0
C2_NumberStored ==
    /\ \A o \in {a, b} :
           /\ o.src.kind = "number" => o.raw = o.src.num
           /\ o.src.kind = "undefined"
                  => o.raw = Zero /\ \A k \in KeySet : Unit(k, o.raw) = 0
    /\ \A i \in 1..Calls :
           hist[i].op = "new"
               => /\ hist[i].arg.kind = "number"
                         => hist[i].ret = RetDuration(hist[i].arg.num)
                  /\ hist[i].arg.kind = "undefined"
                         => hist[i].ret = RetDuration(Zero)

C2_Witness ==
    /\ Calls = 1
    /\ hist[1].op = "new"
    /\ hist[1].arg.kind = "number"
    /\ NumSign(hist[1].arg.num) < 0
    /\ b.raw = hist[1].arg.num
    /\ a.src.kind = "undefined"
    /\ a.raw = Zero

\* the milliseconds that the texts given as operands stand for
TextMillis(str) ==
    CASE str = Chars("119 seconds") -> NumOf(119000)
      [] str = Chars("60000 ms") -> NumOf(60000)
      [] str = Chars("60 seconds") -> NumOf(60000)
      [] str = Chars("1 minute") -> NumOf(60000)

\* the raw of an operand: of a Duration, of a number, of a text
RawOf(v) == IF v.kind = "string" THEN TextMillis(v.str) ELSE v.num

\* a whole number of milliseconds
Whole(x) == NumOf(Trunc(x)) = x

\* call i is a minus that returned the signed difference of the receiver's raw
\* and the operand's: negative when the operand is larger, the sum of the
\* magnitudes when the operand is negative and the receiver is not
SignedDifference(i) ==
    hist[i].op = "minus"
        => /\ hist[i].ret = RetDuration(NumSub(hist[i].pre, RawOf(hist[i].arg)))
           /\ NumGreater(RawOf(hist[i].arg), hist[i].pre)
                  => NumSign(hist[i].ret.raw) < 0
           /\ NumSign(RawOf(hist[i].arg)) < 0
                  => hist[i].ret.raw = NumAdd(hist[i].pre, NumAbs(RawOf(hist[i].arg)))

\* call i takes away what call i - 1 added
PlusThenMinus(i) ==
    /\ i > 1
    /\ hist[i - 1].op = "plus"
    /\ hist[i].op = "minus"
    /\ hist[i].on = "ret"
    /\ hist[i].arg = hist[i - 1].arg

\* C6 as stated: a.minus(b).raw is the signed difference a.raw - b.raw for b
\* a Duration, a number or a string, and a.plus(b).minus(b).raw = a.raw for
\* all a and b
C6_MinusUndoesPlus ==
    \A i \in 1..Calls :
        /\ SignedDifference(i)
        /\ PlusThenMinus(i) => hist[i].ret.raw = hist[i - 1].pre

\* C6 amended: a.minus(b).raw is the signed difference a.raw - b.raw in double
\* arithmetic, and a.plus(b).minus(b).raw = a.raw when a.raw and b.raw are
\* whole numbers of milliseconds
C6_MinusUndoesWholePlus ==
    \A i \in 1..Calls :
        /\ SignedDifference(i)
        /\ (/\ PlusThenMinus(i)
            /\ Whole(hist[i - 1].pre)
            /\ Whole(RawOf(hist[i].arg)))
               => hist[i].ret.raw = hist[i - 1].pre

C6_Witness ==
    /\ Calls = 2
    /\ PlusThenMinus(2)
    /\ hist[1].pre = NumOf(121000)
    /\ hist[2].arg = DurationValue(NumOf(-119000))
    /\ hist[2].pre = NumOf(2000)
    /\ hist[2].ret.raw = NumOf(121000)

\* C7: a.plus(x) returns a new Duration with raw = a.raw + raw(x) for x a
\* Duration, a number or a string, and adding a string that stands for b.raw
\* gives the raw that adding the Duration b gives
C7_PlusAddsRaw ==
    \A i \in 1..Calls :
        hist[i].op = "plus"
            => /\ hist[i].ret = RetDuration(NumAdd(hist[i].pre, RawOf(hist[i].arg)))
               /\ (hist[i].arg.kind = "string" /\ RawOf(hist[i].arg) = b.raw)
                      => hist[i].ret.raw = plus(hist[i].pre, DurationValue(b.raw))

C7_Witness ==
    /\ Calls = 1
    /\ hist[1].op = "plus"
    /\ hist[1].arg = StringValue(Chars("119 seconds"))
    /\ b.raw = NumOf(119000)
    /\ hist[1].pre = NumOf(121000)
    /\ hist[1].ret.raw = NumOf(240000)

\* C8: abs() returns |raw| and negated() returns -|raw|: the negation of a
\* positive raw and a negative raw itself, never a positive one; negated()
\* after negated() changes nothing, and abs() after negated() returns what
\* abs() of the first receiver is
C8_AbsAndNegated ==
    \A i \in 1..Calls :
        /\ hist[i].op = "abs"
               => /\ hist[i].ret.kind = "Duration"
                  /\ hist[i].ret.raw = IF NumSign(hist[i].pre) < 0
                                       THEN NumNeg(hist[i].pre) ELSE hist[i].pre
        /\ hist[i].op = "negated"
               => /\ hist[i].ret.kind = "Duration"
                  /\ hist[i].ret.raw = IF NumSign(hist[i].pre) > 0
                                       THEN NumNeg(hist[i].pre) ELSE hist[i].pre
                  /\ NumSign(hist[i].ret.raw) <= 0
        /\ (i > 1 /\ hist[i - 1].op = "negated" /\ hist[i].op = "negated")
               => hist[i].ret.raw = hist[i - 1].ret.raw
        /\ (i > 1 /\ hist[i - 1].op = "negated" /\ hist[i].op = "abs")
               => hist[i].ret.raw = abs(hist[i - 1].pre)

C8_Witness ==
    /\ Calls = 2
    /\ hist[1].op = "negated"
    /\ hist[2].op = "negated"
    /\ NumSign(hist[1].pre) > 0
    /\ hist[1].ret.raw = NumNeg(hist[1].pre)
    /\ hist[2].ret.raw = hist[1].ret.raw

\* the order of two raws: the sign of their difference
Order(x, y) == NumSign(NumSub(x, y))

\* a Duration built from one of the three texts for one minute
OneMinute(o) ==
    /\ o.src.kind = "string"
    /\ o.src.str \in {Chars("60 seconds"), Chars("1 minute"), Chars("60000 ms")}

\* C9: a.compareTo(b) is -1, 0 or +1 as a.raw is less than, equal to or
\* greater than b.raw, b.compareTo(a) is its opposite, a.equals(b) is true
\* exactly when a.compareTo(b) is 0, and 60 seconds, 1 minute and 60000 ms
\* compare equal
C9_CompareByRaw ==
    \A i \in 1..Calls :
        /\ hist[i].op = "compareTo"
               => /\ hist[i].ret = RetInt(Order(hist[i].pre, b.raw))
                  /\ compareTo(b.raw, hist[i].pre) = -hist[i].ret.int
                  /\ (hist[i].on = "a" /\ OneMinute(a) /\ OneMinute(b))
                         => hist[i].ret.int = 0
        /\ hist[i].op = "equals"
               => /\ hist[i].ret = RetBoolean(compareTo(hist[i].pre, b.raw) = 0)
                  /\ hist[i].ret.bool <=> (Order(hist[i].pre, b.raw) = 0)
                  /\ (hist[i].on = "a" /\ OneMinute(a) /\ OneMinute(b))
                         => hist[i].ret.bool

C9_Witness ==
    /\ Calls = 1
    /\ hist[1].op = "compareTo"
    /\ hist[1].ret.int = 0
    /\ OneMinute(a)
    /\ OneMinute(b)
    /\ a.src # b.src

---------------------------------------------------------------------------
(* Properties of the parser, checked under SpecParse *)

\* C10: parseISOString of P[nD]T[nH][nM][n[.f]S] returns the milliseconds of
\* the date part plus the milliseconds of the time part
C10_IsoDateAndTime ==
    \A c \in IsoCases :
        (/\ Calls = 1
         /\ hist[1].op = "parseISOString"
         /\ hist[1].arg = StringValue(Chars(IsoText(c))))
            => hist[1].ret = RetNumber(IsoMillis(c))

---------------------------------------------------------------------------
(* Properties of the texts, checked under SpecText *)

\* C11: a Duration of whole milliseconds that is not negative is read back
\* from its ISO text with the same raw, and an ISO text in the written form
\* is written again unchanged by the Duration constructed from it
C11_IsoRoundTrip ==
    /\ (/\ Calls = 2
        /\ hist[1].op = "toISOString"
        /\ a.src.kind = "number"
        /\ NumSign(a.raw) >= 0
        /\ Whole(a.raw))
           => hist[2].ret.raw = a.raw
    /\ (/\ Calls = 1
        /\ hist[1].op = "toISOString"
        /\ a.src.kind = "string")
           => Chars(hist[1].ret.str) = a.src.str

\* the name of one unit of k
Singular(k) ==
    CASE k = "d" -> "day"
      [] k = "h" -> "hour"
      [] k = "m" -> "minute"
      [] k = "s" -> "second"
      [] k = "ms" -> "millisecond"
      [] k = "us" -> "microsecond"
      [] k = "ns" -> "nanosecond"

\* the text of the units u of the keys, each a number, in digits or in
\* words, and the name of the unit: the singular for 1, else the plural
NamedUnits(u, keys, words) ==
    join([i \in 1..Len(keys) |->
              (IF words THEN trim(InWords(u[keys[i]]))
               ELSE ToString(u[keys[i]]))
                  \o " "
                  \o (IF u[keys[i]] = 1 THEN Singular(keys[i])
                      ELSE keyList(keys[i]))],
         ", ")

\* C18: toDescriptiveString and toWordString, with all the units, with the
\* units that are not 0 and with the units of a list of keys, name a unit of
\* value 1 in the singular and a unit of any other value in the plural
C18_SingularOfOne ==
    (Calls = 1 /\ hist[1].op \in {"toDescriptiveString", "toWordString"})
        => hist[1].ret.str =
               NamedUnits(array(a.raw), Filter(array(a.raw), hist[1].arg),
                          hist[1].op = "toWordString")

\* <value><key> of the units u of the keys, a blank between two of them
RECURSIVE Listing(_, _)
Listing(u, keys) ==
    IF keys = <<>> THEN ""
    ELSE ToString(u[Head(keys)]) \o Head(keys)
             \o (IF Len(keys) = 1 THEN "" ELSE " " \o Listing(u, Tail(keys)))

\* the keys, in the order d h m s ms us ns, of the units to show for the
\* argument values: all for no argument, the units that are not 0 for true,
\* the listed ones for a list
Listed(u, values) ==
    SelectSeq(Keys,
              LAMBDA k : CASE values.kind = "array" ->
                                  \E i \in 1..Len(values.str) : values.str[i] = k
                           [] values.kind = "true" -> u[k] # 0
                           [] OTHER -> TRUE)

\* toString() is toShortString() without an argument, which lists the seven
\* units
ToStringListsAll(i) ==
    hist[i].op = "toString" => hist[i].ret.str = Listing(array(a.raw), Keys)

\* C19: toShortString() lists the seven units as <value><key> with single
\* blanks in the order d h m s ms us ns; with a list of keys it shows
\* exactly the listed units in that order, with true exactly the units that
\* are not 0; toString() equals toShortString()
C19_ShortListsUnits ==
    Calls = 1
        => /\ ToStringListsAll(1)
           /\ (hist[1].op = "toShortString" /\ hist[1].arg # null)
                 => hist[1].ret.str =
                        Listing(array(a.raw), Listed(array(a.raw), hist[1].arg))

\* C19, for the lists that have a member: toShortString() lists the seven
\* units as <value><key> with single blanks in the order d h m s ms us ns,
\* and so it does with the empty list; with a list that has a member it
\* shows exactly the listed units in that order, with true exactly the
\* units that are not 0; toString() equals toShortString()
C19_ShortListsMembers ==
    Calls = 1
        => /\ ToStringListsAll(1)
           /\ (hist[1].op = "toShortString" /\ hist[1].arg # null)
                 => hist[1].ret.str =
                        Listing(array(a.raw),
                                Listed(array(a.raw),
                                       IF hist[1].arg = ArrayValue(<<>>)
                                       THEN undefined ELSE hist[1].arg))

\* the seconds and the days of 1 d 2 h 3 m 4 s 5 ms were asked for, in this
\* order, and the days are shown first
C19_Witness ==
    /\ Calls = 1
    /\ hist[1].op = "toShortString"
    /\ a.raw = NumOf(93784005)
    /\ hist[1].arg = ArrayValue(<<"s", "d">>)
    /\ hist[1].ret.str = "1d 4s"

\* the integer v in digits, with zeros in front up to len digits
ZeroPadded(v, len) ==
    IF v < 0 THEN "-" \o padStart(ToString(-v), len)
    ELSE padStart(ToString(v), len)

\* the fields of the units u at the places from .. to of d h m s ms us ns,
\* with colons between them
TimeFields(u, from, to) ==
    join([i \in 1..(to - from + 1) |->
              ZeroPadded(u[Keys[from + i - 1]],
                         IF from + i - 1 >= 5 THEN 3 ELSE 2)],
         ":")

\* C20: toTimeString(from, to), for two unit keys with from not after to,
\* returns the fields from .. to with colons between them, each padded with
\* zeros: days, hours, minutes and seconds to 2 digits at least,
\* milliseconds, microseconds and nanoseconds to 3 digits; without arguments
\* it returns all seven fields
C20_TimeFields ==
    (Calls = 1 /\ hist[1].op = "toTimeString")
        => /\ hist[1].arg = undefined
                 => hist[1].ret.str = TimeFields(array(a.raw), 1, 7)
           /\ \A i, j \in 1..Len(Keys) :
                  (i <= j /\ hist[1].arg = ArrayValue(<<Keys[i], Keys[j]>>))
                      => hist[1].ret.str = TimeFields(array(a.raw), i, j)

\* the values of the seven units u as they are, with colons between them
RECURSIVE Unpadded(_, _)
Unpadded(u, keys) ==
    IF keys = <<>> THEN ""
    ELSE ToString(u[Head(keys)])
             \o (IF Len(keys) = 1 THEN "" ELSE ":" \o Unpadded(u, Tail(keys)))

\* C21: toTimeString with a from or a to that is not one of the seven unit
\* keys returns the values of the seven units, not padded, with colons
\* between them
C21_TimeFallback ==
    (/\ Calls = 1
     /\ hist[1].op = "toTimeString"
     /\ hist[1].arg.kind = "array"
     /\ \E i \in 1..2 : hist[1].arg.str[i] \notin KeySet)
        => hist[1].ret.str = Unpadded(array(a.raw), Keys)

\* C23: every value that toWordString gives to InWords is an integer that is
\* not negative, whatever the sign of the Duration
C23_WordsOfNaturals ==
    (Calls = 1 /\ hist[1].op = "toWordString")
        => \A i \in 1..Len(Filter(array(a.raw), hist[1].arg)) :
               array(a.raw)[Filter(array(a.raw), hist[1].arg)[i]] \in Nat

---------------------------------------------------------------------------
(* Properties of the parser's rejections, checked under SpecParse *)

\* the text before the first T or t of str (all of str when it has none)
RECURSIVE DatePart(_)
DatePart(str) ==
    IF str = <<>> \/ Head(str) \in {"T", "t"} THEN <<>>
    ELSE <<Head(str)>> \o DatePart(Tail(str))

\* str has one of the characters cs
HasOneOf(str, cs) == \E i \in 1..Len(str) : str[i] \in cs

\* the ISO texts that parseISOString is to reject: no P in front, no T, or a
\* Y or an M in the date part, which is what follows the P up to the first T
IsoRejected(str) ==
    \/ str = <<>>
    \/ Head(str) \notin {"P", "p"}
    \/ ~HasOneOf(str, {"T", "t"})
    \/ HasOneOf(DatePart(Tail(str)), {"Y", "y", "M", "m"})

\* C12: parseISOString throws for the texts without a leading P, without a T
\* or with a Y or an M before the T, and returns a number for every other
\* text, those with an M after the T included
C12_IsoRejects ==
    (Calls = 1 /\ hist[1].op = "parseISOString")
        => (hist[1].ret = RetThrow <=> IsoRejected(hist[1].arg.str))

\* parseISOString threw for a month in the date part
C12_Witness ==
    /\ Calls = 1
    /\ hist[1].op = "parseISOString"
    /\ hist[1].arg = StringValue(Chars("P2MT1H"))
    /\ hist[1].ret = RetThrow

---------------------------------------------------------------------------
(* Properties of the free-form scan, checked under SpecParse *)

Units(dd, hh, mm, ss, f, u, n) ==
    [d |-> dd, h |-> hh, m |-> mm, s |-> ss, ms |-> f, us |-> u, ns |-> n]

\* texts of unit-tagged whole numbers and the number that each unit is to
\* read; the same tokens stand in one order and in another
ScanCases ==
    {[text |-> "131 days, 50 hours, and 3600 secs",
      e |-> Units(131, 50, 0, 3600, 0, 0, 0)],
     [text |-> "3600 secs, 50 hours and 131 days",
      e |-> Units(131, 50, 0, 3600, 0, 0, 0)],
     [text |-> "1m2s", e |-> Units(0, 0, 1, 2, 0, 0, 0)],
     [text |-> "2s1m", e |-> Units(0, 0, 1, 2, 0, 0, 0)],
     [text |-> "1d 2h 3m 4s 5ms 6us 7ns", e |-> Units(1, 2, 3, 4, 5, 6, 7)],
     [text |-> "7ns 6us 5ms 4s 3m 2h 1d", e |-> Units(1, 2, 3, 4, 5, 6, 7)]}

\* d*86_400_000 + h*3_600_000 + m*60_000 + s*1_000 + ms + us/1_000 +
\* ns/1_000_000 of whole units e that are not negative: the sum is exact when
\* there are no microseconds and nanoseconds, else the nearest double
ExactSum(e) ==
    IF e.us = 0 /\ e.ns = 0
    THEN Round(1, BigTimesSmall(BigTimesSmall(BigTimesSmall(BigTimesSmall(
                  BigOf(e.d), 24, e.h), 60, e.m), 60, e.s), 1000, e.ms),
               0, FALSE)
    ELSE Recombined(e, 1)

\* C13: the free-form scan gives each unit the number tagged with one of its
\* aliases wherever the token stands, and the result is the sum of the
\* units times their sizes, units out of their range carried: the text of
\* 131 days, 50 hours and 3600 secs is a Duration of 133 days and 3 hours
C13_ScanAdds ==
    \A c \in ScanCases :
        (/\ Calls = 1
         /\ hist[1].op \in {"fromString", "new"}
         /\ hist[1].arg = StringValue(Chars(c.text)))
            => /\ hist[1].ret.raw = ExactSum(c.e)
               /\ hist[1].ret.kind = "object"
                     => \A k \in KeySet : hist[1].ret.obj[k] = NumOf(c.e[k])
               /\ c.e.d = 131
                     => hist[1].ret.raw = setHours(setDays(Zero, 133), 3)

\* the reordered text of the days, hours and seconds was scanned
C13_Witness ==
    /\ Calls = 1
    /\ hist[1].op = "fromString"
    /\ hist[1].arg = StringValue(Chars("3600 secs, 50 hours and 131 days"))
    /\ hist[1].ret.kind = "object"
    /\ hist[1].ret.obj.d = NumOf(131)
    /\ hist[1].ret.obj.s = NumOf(3600)
    /\ d(hist[1].ret.raw) = 133
    /\ h(hist[1].ret.raw) = 3

\* the unit token t matches somewhere in str
Matches(str, t) == \E i \in 1..Len(str) : MatchAt(str, Chars(t), i) # 0

\* the number of the first of the tokens ts, in their order, that matches in
\* str, and 0 when none matches
FirstAlias(str, ts, j) ==
    IF j = 0 THEN Zero ELSE matchUnit(str, Chars(ts[j]))

\* C14: each unit reads the number of the first of its aliases, in the order
\* of the alias list, that matches anywhere in the text, a matched 0
\* included; a later alias counts only when no earlier one matches, and the
\* unit is 0 only when none matches
C14_FirstAliasWins ==
    (/\ Calls = 1
     /\ hist[1].op = "fromString"
     /\ hist[1].ret.kind = "object")
        => \A k \in KeySet :
               hist[1].ret.obj[k] =
                   FirstAlias(RemoveSpacePairs(hist[1].arg.str), Tokens(k),
                       First({j \in 1..Len(Tokens(k)) :
                                 Matches(RemoveSpacePairs(hist[1].arg.str),
                                         Tokens(k)[j])}))

\* C15: new Duration(text) throws for no text; a text that the ISO path
\* rejects is read by the free-form scan of the whole text, and a text without
\* a number or without a letter, the empty text included, gives raw = 0
C15_TextNeverThrows ==
    (Calls = 1 /\ hist[1].op = "new")
        => /\ hist[1].ret.kind = "Duration"
           /\ b.src = hist[1].arg
           /\ IsoRejected(hist[1].arg.str)
                 => hist[1].ret.raw = readString(hist[1].arg.str).raw
           /\ (\/ ~HasOneOf(hist[1].arg.str, DigitSet)
               \/ ~HasOneOf(hist[1].arg.str, LowerSet \cup UpperSet))
                 => hist[1].ret.raw = Zero

\* a text that the ISO path rejects for its month was read by the scan, which
\* finds the hour in it
C15_Witness ==
    /\ Calls = 1
    /\ hist[1].op = "new"
    /\ hist[1].arg = StringValue(Chars("P2MT1H"))
    /\ hist[1].ret = RetDuration(NumOf(3600000))

\* texts n u and a.b u of one number and one unit alias, and the milliseconds
\* of the number times the size of the unit; the size of a microsecond is
\* the double 0.001, and the product is a product of doubles
SignCases ==
    {[text |-> "5 seconds", millis |-> NumOf(5000)],
     [text |-> "3 minutes", millis |-> NumOf(180000)],
     [text |-> "1.5 h", millis |-> NumOf(5400000)],
     [text |-> "2.5d", millis |-> NumOf(216000000)],
     [text |-> "0.5 ms", millis |-> Num("0.5")],
     [text |-> "12.75 mins", millis |-> NumOf(765000)],
     [text |-> "4.5 us", millis |-> NumTimes(Num("4.5"), MICROSECOND)]}

\* C16: the scan reads a decimal fraction and a leading minus sign with the
\* number: a.b u is a.b times the size of the unit u, and -n u is the
\* negation of n u, so that its abs() is n u
C16_SignAndFraction ==
    \A c \in SignCases :
        /\ (/\ Calls = 1
            /\ hist[1].op \in {"fromString", "new"}
            /\ hist[1].arg = StringValue(Chars(c.text)))
               => hist[1].ret.raw = c.millis
        /\ (/\ Calls = 1
            /\ hist[1].op \in {"fromString", "new"}
            /\ hist[1].arg = StringValue(<<"-">> \o Chars(c.text)))
               => /\ hist[1].ret.raw = negated(c.millis)
                  /\ hist[1].ret.raw # c.millis
                  /\ abs(hist[1].ret.raw) = c.millis

\* new Duration("-1.5 h") is minus an hour and a half
C16_Witness ==
    /\ Calls = 1
    /\ hist[1].op = "new"
    /\ hist[1].arg = StringValue(Chars("-1.5 h"))
    /\ hist[1].ret = RetDuration(NumNeg(NumOf(5400000)))

\* the example of the README
ReadmeText == "4090 sec 4939  days 7342  hour 2324milliseconds 4344 min"

\* the README text was scanned, and read as 4939 days, 7342 hours, 4344
\* minutes, 4090 seconds and 2324 milliseconds
ReadmeRead(i) ==
    /\ hist[i].op = "fromString"
    /\ hist[i].arg = StringValue(Chars(ReadmeText))
    /\ hist[i].ret.kind = "object"
        => hist[i].ret.obj =
               [raw |-> hist[i].ret.raw, d |-> NumOf(4939), h |-> NumOf(7342),
                m |-> NumOf(4344), s |-> NumOf(4090), ms |-> NumOf(2324),
                ns |-> Zero, us |-> Zero]

\* the five larger units of raw
LargeUnits(raw) == <<d(raw), h(raw), m(raw), s(raw), ms(raw)>>

RECURSIVE SkipDigits(_)
SkipDigits(str) ==
    IF str # <<>> /\ IsDigit(Head(str)) THEN SkipDigits(Tail(str)) ELSE str

\* str after a field n c in front of it, n digits and c one of the letters cs;
\* str itself when it has no such field in front
AfterField(str, cs) ==
    LET rest == SkipDigits(str)
    IN  IF rest # str /\ rest # <<>> /\ Head(rest) \in cs THEN Tail(rest)
        ELSE str

\* str after a field n S or n.f S of seconds in front of it, else str
AfterSeconds(str) ==
    LET rest == SkipDigits(str)
        frac == IF rest # <<>> /\ Head(rest) = "." THEN SkipDigits(Tail(rest))
                ELSE rest
    IN  IF /\ rest # str
           /\ rest # <<>> /\ Head(rest) = "." => frac # Tail(rest)
           /\ frac # <<>> /\ Head(frac) \in {"S", "s"}
        THEN Tail(frac)
        ELSE str

\* the texts of the form P[nD]T[nH][nM][n[.f]S], in either case of the letters
IsoForm(str) ==
    /\ str # <<>>
    /\ Head(str) \in {"P", "p"}
    /\ LET time == AfterField(Tail(str), {"D", "d"})
       IN  /\ time # <<>>
           /\ Head(time) \in {"T", "t"}
           /\ AfterSeconds(AfterField(AfterField(Tail(time), {"H", "h"}),
                                      {"M", "m"})) = <<>>

\* C28: for every text that is not of the ISO form, a text that begins with p
\* and contains a t included, the raw of new Duration(text) is the raw of the
\* free-form scan of the whole text
C28_IsoFormOnly ==
    (Calls = 1 /\ hist[1].op = "new" /\ ~IsoForm(hist[1].arg.str))
        => hist[1].ret.raw = readString(hist[1].arg.str).raw

---------------------------------------------------------------------------
(* Properties of the unit values, checked under SpecUnits *)

\* the whole milliseconds of n days, as limbs
DaysInMillis(n) == BigTimesSmall(BigTimesSmall(BigOf(n), 8640, 0), 10000, 0)

\* C26: whatever raw is, none of the seven unit values has the sign opposite
\* to raw, the hours are within 23, the minutes and the seconds within 59,
\* the milliseconds, microseconds and nanoseconds within 999, and the days
\* are raw / 86_400_000 rounded toward zero
C26_UnitsInRange ==
    LET u == array(a.raw)
    IN  /\ \A k \in KeySet : u[k] * NumSign(a.raw) >= 0
        /\ NumSign(a.raw) = 0 => \A k \in KeySet : u[k] = 0
        /\ Abs(u.h) <= 23
        /\ Abs(u.m) <= 59
        /\ Abs(u.s) <= 59
        /\ \A k \in {"ms", "us", "ns"} : Abs(u[k]) <= 999
        /\ BigCmp(DaysInMillis(Abs(u.d)), BigTrunc(a.raw)) <= 0
        /\ BigCmp(BigTrunc(a.raw), DaysInMillis(Abs(u.d) + 1)) < 0

\* a setter left a negative raw with every unit at the end of its range
C26_Witness ==
    /\ Calls = 1
    /\ NumSign(a.raw) < 0
    /\ array(a.raw).d < 0
    /\ array(a.raw).h = -23
    /\ array(a.raw).m = -59
    /\ array(a.raw).s = -59
    /\ array(a.raw).ms = -999
    /\ array(a.raw).us = -999

---------------------------------------------------------------------------
(* Properties of the constructor's argument, checked under Spec *)

\* C25: new Duration(x) throws and leaves no Duration when x is null, a
\* boolean, a plain object or a Date; new Duration() and
\* new Duration(undefined) do not throw and give the Duration of raw 0
C25_UnsupportedThrows ==
    (Calls >= 1 /\ hist[1].op = "new")
        => /\ hist[1].arg.kind \in {"null", "true", "object", "Date"}
                 => hist[1].ret = RetThrow /\ b.src # hist[1].arg
           /\ hist[1].arg = undefined
                 => /\ hist[1].ret = RetDuration(Zero)
                    /\ b = [src |-> undefined, raw |-> Zero]

\* new Duration(date) threw and b is the Duration it was
C25_Witness ==
    /\ Calls = 1
    /\ hist[1].op = "new"
    /\ hist[1].arg = DateValue(NumOf(86400000))
    /\ hist[1].ret = RetThrow
    /\ b.src \in OtherValues

---------------------------------------------------------------------------
(* Properties of the numbers in words, checked under SpecWords *)

\* the words of an integer n in 1..99: the word of the digit, "ten", the word
\* of 11..19, or the word of the tens and then the word of the ones when
\* the ones are not 0
English(n) ==
    IF n < 10 THEN digits[n + 1]
    ELSE IF n = 10 THEN "ten"
    ELSE IF n < 20 THEN teens[n - 9]
    ELSE tens[(n \div 10) + 1]
             \o (IF n % 10 = 0 THEN "" ELSE " " \o digits[(n % 10) + 1])

\* str with one blank for every run of blanks
RECURSIVE Squeeze(_)
Squeeze(str) ==
    IF Len(str) < 2 THEN str
    ELSE IF SubSeq(str, 1, 2) = "  " THEN Squeeze(SubSeq(str, 2, Len(str)))
    ELSE SubSeq(str, 1, 1) \o Squeeze(SubSeq(str, 2, Len(str)))

\* C22: InWords(n), trimmed, is "zero" for 0 and the English words of n for n
\* in 1..99; for n in 100..999 it is the word of the hundreds, "hundred and",
\* and the English words of the last two digits when they are not 00
C22_WordsOfTwoDigits ==
    (Calls = 1 /\ hist[1].op = "InWords" /\ hist[1].n <= 999)
        => LET n == hist[1].n
               str == Squeeze(trim(hist[1].ret.str))
           IN  /\ n = 0 => str = "zero"
               /\ n \in 1..99 => str = English(n)
               /\ n >= 100
                     => str = digits[(n \div 100) + 1] \o " hundred and"
                                  \o (IF n % 100 = 0 THEN ""
                                      ELSE " " \o English(n % 100))

\* C29: InWords(n), trimmed, is not empty, and is not InWords(m), trimmed, of
\* any other integer in 0..999
C29_WordsInjective ==
    (Calls = 1 /\ hist[1].op = "InWords" /\ hist[1].n <= 999)
        => /\ trim(hist[1].ret.str) # ""
           /\ \A other \in 0..999 :
                  other # hist[1].n
                      => trim(InWords(other)) # trim(hist[1].ret.str)

---------------------------------------------------------------------------
(* Properties of since and till, checked under SpecClock *)

\* C24: with now the reading of the clock in the call, since(when) for a
\* when that is not after now is the Duration of now - when, which is not
\* negative, and till(when) for a when that is not before now is the Duration
\* of when - now, which is not negative; when is a timestamp or a Date
C24_SinceAndTill ==
    Calls = 1
        => LET when == hist[1].arg.num
               now  == hist[1].pre
           IN  /\ (hist[1].op = "since" /\ ~NumGreater(when, now))
                     => /\ hist[1].ret.raw = NumSub(now, when)
                        /\ NumSign(hist[1].ret.raw) >= 0
               /\ (hist[1].op = "till" /\ ~NumGreater(now, when))
                     => /\ hist[1].ret.raw = NumSub(when, now)
                        /\ NumSign(hist[1].ret.raw) >= 0

---------------------------------------------------------------------------
(* Properties of toJSON, checked under SpecJson *)

\* the record that a call returned, as it is now
Returned(ret) == IF ret.kind = "reference" THEN BaseDurationObj ELSE ret.obj

\* C27: the record that toJSON() or .json returned has the seven unit
\* fields and no other, and its values are the units that the Duration had
\* at the call, whatever calls of toJSON() or .json on another Duration and
\* whatever changes of the Duration came after; and the template record of
\* the module is all zeros
C27_JsonRecordsKept ==
    /\ \A i \in 1..Calls :
           hist[i].op \in {"toJSON", "json"}
               => /\ DOMAIN Returned(hist[i].ret) = KeySet
                  /\ Returned(hist[i].ret) = array(hist[i].pre)
    /\ \A k \in KeySet : BaseDurationObj[k] = 0

---------------------------------------------------------------------------
(* Properties of the calls that change no Duration, checked under         *)
(* SpecValues                                                              *)

\* the calls that change the raw of their receiver
Setters == {"set", "add", "assign"}

\* the calls that return a Duration
Makers ==
    {"plus", "minus", "abs", "negated", "multipliedBy", "dividedBy", "between",
     "new", "clone"}

\* one call: a setter changes a, its receiver, returns it, and leaves b; a
\* copy leaves the Duration copied and gives the other variable a new
\* Duration of the same raw; every other call leaves a and b; the call
\* returns a new Duration whenever it returns a Duration
C30_Call ==
    LET call == hist'[Len(hist')]
    IN  hist' # hist
            => /\ call.op \in Setters
                     => call.on = "a" /\ call.ret = RetThis /\ b' = b
               /\ (call.op \in {"new", "clone"} /\ call.on = "a")
                     => a' = a /\ b'.raw = a.raw
               /\ (call.op \in {"new", "clone"} /\ call.on = "b")
                     => b' = b /\ a'.raw = b.raw
               /\ call.op \notin Setters \cup {"new", "clone"}
                     => a' = a /\ b' = b
               /\ call.op \in Makers => call.ret.kind = "Duration"

\* after b was copied from a or a from b, with no copy since, b has
\* the raw of the moment of the copy, whatever setters were called on a
C30_CopyKept ==
    \A i \in 1..Calls :
        (/\ hist[i].op \in {"new", "clone"}
         /\ \A j \in (i + 1)..Calls : hist[j].op \in Setters)
            => b.raw = hist[i].pre

\* C30: only the setters, the adders and the unit assignments change a
\* Duration, and only their receiver: plus, minus, abs, negated, multipliedBy,
\* dividedBy, clone, compareTo, equals, between and the methods that return a
\* text leave the receiver and the argument as they are and return a new value,
\* and a Duration copied from another by the constructor or by clone keeps
\* its raw when the other is changed, and the other when the copy is changed
C30_OnlySettersChange == [][C30_Call]_vars /\ []C30_CopyKept

\* a was copied to b and then changed by a setter: b has the raw that was
\* copied and a has another
C30_Witness ==
    /\ Calls = 2
    /\ hist[1].op = "clone"
    /\ hist[1].on = "a"
    /\ hist[2].op = "set"
    /\ b.raw = hist[1].pre
    /\ a.raw # b.raw

=============================================================================
